---------------------------- MODULE Spec2Model ----------------------------
(***************************************************************************)
(* World-boss raid engine of glittergrove (src/bossbattle).                *)
(*                                                                         *)
(* The model follows the asyncio program: one step per stretch of code     *)
(* between two awaits.  The persisted boss document is `disk`; every       *)
(* coroutine works on its own in-memory dict (`loc`), loaded by load_boss  *)
(* and written back by save_boss.  boss_state_lock is `lock`.              *)
(* Wall-clock time is abstracted: the per-user cooldown, the idle window,  *)
(* the shield expiry and the regen/daily windows are inputs of the steps.  *)
(***************************************************************************)
EXTENDS Integers, Sequences, FiniteSets, TLC

(***************************************************************************)
(* Bounds of the model                                                     *)
(***************************************************************************)
NTasks == 3            \* boss_attack invocations in one run
MaxOps == 1            \* admin commands + scheduler ticks in one run
MaxTopUps == 1         \* regen ticks + daily claims in one run
InitHp == 150          \* hp (= max_hp) of the boss spawned before the run

(***************************************************************************)
(* Program constants                                                       *)
(***************************************************************************)
ENERGY_MAX == 5
RAID_DAILY_CLAIM_AMOUNT == 5
MIN_HIT_ABS == 100
BASE_DMG_PERMILLE == 8         \* BASE_DMG_PCT = 0.008
MAX_HIT_PERMILLE == 35         \* MAX_HIT_PCT = 0.035
WEAKNESS_BONUS_PCT == 20
THORNED_REND_BONUS_PCT == 15
GUARD_BREAK_BONUS_PCT == 15
SHIELD_BRAMBLE_PCT == 8
SHIELD_VEIL_PCT == 6
BRAMBLE_KEEP_PCT == 50         \* dmg * 0.5
VEIL_KEEP_PCT == 60            \* dmg * 0.6
IDLE_HEAL_PCT == 3
REWARD_PER_PLAYER == 1000
REWARD_MIN == 1800
REWARD_MAX == 7500
LogCap == 25

Players == {"p1", "p2"}
Tasks == 1..NTasks
NoTask == 0
NoPlayer == "nobody"

\* The faction slug stored in each player's profile.
FactionOf(p) == IF p = "p1" THEN "verdant" ELSE "thorned"

\* raid_energy of each profile at the start of the run.
InitEnergy(p) == IF p = "p1" THEN 1 ELSE 2

JitterPcts == {90, 110}        \* random.uniform(0.90, 1.10), in percent
SpawnHps == {100}              \* hp arguments of /boss_admin spawn
SetHps == {-50, 400}    \* hp arguments of /boss_admin set_hp
ShieldKinds == {"bramble", "veil"}

Max(a, b) == IF a >= b THEN a ELSE b
Min(a, b) == IF a <= b THEN a ELSE b

\* Python's round() on a non-negative n/d: half to even.
RoundHalfEven(n, d) ==
    LET q == n \div d
        r == n % d
    IN  IF 2 * r < d THEN q
        ELSE IF 2 * r > d THEN q + 1
        ELSE IF q % 2 = 0 THEN q ELSE q + 1

(***************************************************************************)
(* Boss document                                                           *)
(***************************************************************************)
NoShield == [type |-> "none", hp |-> 0, max_hp |-> 0]
EmptyTally == [p \in {} |-> 0]

TallyGet(tally, p) == IF p \in DOMAIN tally THEN tally[p] ELSE 0

TallyPut(tally, p, v) ==
    [q \in (DOMAIN tally) \cup {p} |-> IF q = p THEN v ELSE tally[q]]

RECURSIVE SumOver(_, _)
SumOver(f, S) ==
    IF S = {} THEN 0
    ELSE LET x == CHOOSE y \in S : TRUE
         IN  f[x] + SumOver(f, S \ {x})

TallyTotal(tally) == SumOver(tally, DOMAIN tally)

\* The document /boss_admin spawn leaves on disk.
SpawnedBoss(b, hp) ==
    [b EXCEPT !.hp = Max(1, hp),
              !.max_hp = Max(1, hp),
              !.phase = 1,
              !.tally = EmptyTally,
              !.last_actions = << >>,
              !.shield = NoShield]

BlankBoss ==
    [hp |-> 0, max_hp |-> 1, phase |-> 1, weakness |-> "verdant",
     shield |-> NoShield, guard_break |-> FALSE, tally |-> EmptyTally,
     last_actions |-> << >>, has_p2 |-> TRUE]

\* schema._ensure_shape: fills in missing keys; a complete document is kept.
EnsureShape(b) == b

\* storage.load_boss / storage.save_boss (the catalog is not part of this model).
LoadBoss(d) == EnsureShape(d)
SaveBoss(b) == EnsureShape(b)

\* The cut of the log keeping its oldest entries.
LastN_Oldest(s, n) == IF Len(s) <= n THEN s ELSE SubSeq(s, 1, n)

\* s[-n:]
LastN(s, n) == IF Len(s) <= n THEN s ELSE SubSeq(s, Len(s) - n + 1, Len(s))

(***************************************************************************)
(* storage._write_json: the files next to data/boss.json                   *)
(***************************************************************************)
\* settings.BOSS_FILE
BOSS_FILE == "boss.json"

\* Line 38, written onto the path itself instead of a temp file.
TmpName_InPlace(path) == path

\* Line 38: tmp = path.with_suffix(path.suffix + ".tmp")
TmpName(path) == IF path = BOSS_FILE THEN "boss.json.tmp" ELSE "other.tmp"

\* Line 43: bak = path.with_suffix(path.suffix + ".bak")
BakName(path) == IF path = BOSS_FILE THEN "boss.json.bak" ELSE "other.bak"

\* Line 29: bad = path.with_name(path.name + ".bad-<timestamp>")
BadName(path) == IF path = BOSS_FILE THEN "boss.json.bad" ELSE "other.bad"

FileNames ==
    {BOSS_FILE, TmpName(BOSS_FILE), BakName(BOSS_FILE), BadName(BOSS_FILE)}

\* What a file holds: nothing, the whole json.dumps text of a dict, or the
\* beginning of that text (write_text was cut short).
AbsentFile == [kind |-> "absent"]
Json(data) == [kind |-> "json", data |-> data]
Torn(data) == [kind |-> "torn", data |-> data]

\* Line 39, write_text returned.
WriteTmpText(fs, path, data) == [fs EXCEPT ![TmpName(path)] = Json(data)]

\* Line 39, write_text did not finish (exception, or the process died).
WriteTmpTorn(fs, path, data) == [fs EXCEPT ![TmpName(path)] = Torn(data)]

\* Line 40: os.replace, one atomic rename.
ReplaceTmp(fs, path) ==
    IF TmpName(path) = path
    THEN fs
    ELSE [f \in DOMAIN fs |->
            IF f = path THEN fs[TmpName(path)]
            ELSE IF f = TmpName(path) THEN AbsentFile
            ELSE fs[f]]

\* Lines 43-44, the backup copy: written whole, or cut short.
WriteBakText(fs, path, data) == [fs EXCEPT ![BakName(path)] = Json(data)]
WriteBakTorn(fs, path, data) == [fs EXCEPT ![BakName(path)] = Torn(data)]

\* The statements of _write_json that can raise out of it: mkdir (36),
\* write_text (39), replace (40).  The backup copy is inside try/except.
RaisePoints == {"mkdir", "write_text", "replace"}

\* The files after _write_json(path, data) raised at the given statement.
WriteJsonRaised(fs, path, data, at) ==
    CASE at = "mkdir" -> fs
      [] at = "write_text" -> WriteTmpTorn(fs, path, data)
      [] at = "replace" -> WriteTmpText(fs, path, data)

\* data/boss.json after save_boss(b) raised, the file holding old before.
DocAfterRaise(old, b, at) ==
    LET fs0 == [f \in FileNames |-> IF f = BOSS_FILE THEN Json(old) ELSE AbsentFile]
    IN  WriteJsonRaised(fs0, BOSS_FILE, SaveBoss(b), at)[BOSS_FILE].data

(***************************************************************************)
(* damage.compute_damage                                                   *)
(***************************************************************************)
WeaknessBonusPct(b, faction) ==
    IF b.weakness # "" /\ faction # "" /\ b.weakness = faction
    THEN WEAKNESS_BONUS_PCT ELSE 0

\* Lines 195-197: the clamp on the rolled damage.
ClampHit(base, mx) ==
    LET max_cap == Max(1, (mx * MAX_HIT_PERMILLE) \div 1000)
    IN  Max(MIN_HIT_ABS, Min(base, max_cap))

\* jitter: the random roll, in percent; gbLive: guard_break_until is in the future.
\* The float product mx * 0.008 * jitter * (1 + bonus) ... is kept exact as a
\* fraction (jitter in tenths, each bonus factor in twentieths) and truncated.
ComputeDamage(b, faction, jitter, gbLive) ==
    LET mx == IF b.max_hp > 0 THEN b.max_hp
              ELSE IF b.hp # 0 THEN b.hp ELSE 1
        wb == (100 + WeaknessBonusPct(b, faction)) \div 5
        gb == IF b.guard_break /\ gbLive
              THEN (100 + GUARD_BREAK_BONUS_PCT) \div 5 ELSE 20
        rend == IF faction = "thorned"
                THEN (100 + THORNED_REND_BONUS_PCT) \div 5 ELSE 20
        base == (mx * BASE_DMG_PERMILLE * (jitter \div 10) * wb * gb * rend)
                    \div (1000 * 10 * 20 * 20 * 20)
    IN  ClampHit(base, mx)

(***************************************************************************)
(* shields._shield_active, _spawn_shield, _apply_shield                    *)
(***************************************************************************)
\* expired: now > expires.  Returns the boss with a dead shield cleared.
ShieldActive(b, expired) ==
    IF b.shield.type = "none" THEN [b EXCEPT !.shield = NoShield]
    ELSE IF expired THEN [b EXCEPT !.shield = NoShield]
    ELSE IF b.shield.hp <= 0 THEN [b EXCEPT !.shield = NoShield]
    ELSE [b EXCEPT !.shield.max_hp = Max(b.shield.hp, b.shield.max_hp)]

SpawnShield(b, typ) ==
    LET mx == b.max_hp
        hp == IF typ = "bramble" THEN Max(1, (mx * SHIELD_BRAMBLE_PCT) \div 100)
              ELSE Max(1, (mx * SHIELD_VEIL_PCT) \div 100)
    IN  IF mx <= 0 \/ typ \notin ShieldKinds THEN b
        ELSE [b EXCEPT !.shield = [type |-> typ, hp |-> hp, max_hp |-> hp]]

\* _apply_shield taking the whole hit off the shield, with no floor at 0 and
\* no removal.
ApplyShield_Overdraw(b, dmg0, faction, crit) ==
    [b |-> [b EXCEPT !.shield.hp = @ - Max(0, dmg0)],
     dmg_to_boss |-> 0,
     absorbed |-> Max(0, dmg0),
     broken |-> FALSE]

\* _apply_shield dampening every hit, the counter-faction's included.
ApplyShield_NoCounter(b, dmg0, faction, crit) ==
    LET s == b.shield
        dmg == IF s.type = "bramble"
                   THEN (Max(0, dmg0) * BRAMBLE_KEEP_PCT) \div 100
               ELSE IF s.type = "veil"
                   THEN (Max(0, dmg0) * VEIL_KEEP_PCT) \div 100
               ELSE Max(0, dmg0)
        passthrough == IF faction = "gilded" /\ crit
                       THEN Max(0, RoundHalfEven(dmg * 20, 100)) ELSE 0
        to_shield == Max(0, dmg - passthrough)
        s_hp_before == Max(0, s.hp)
        base_absorb == Min(to_shield, s_hp_before)
        extra_chew == IF faction = "thorned" /\ base_absorb > 0
                      THEN RoundHalfEven(base_absorb * THORNED_REND_BONUS_PCT, 100)
                      ELSE 0
        total_absorb == Min(s_hp_before, base_absorb + Max(0, extra_chew))
        new_hp == Max(0, s_hp_before - total_absorb)
        leftover == Max(0, to_shield - base_absorb)
        broken == new_hp <= 0
    IN  [b |-> IF broken THEN [b EXCEPT !.shield = NoShield]
               ELSE [b EXCEPT !.shield.hp = new_hp],
         dmg_to_boss |-> passthrough + leftover,
         absorbed |-> total_absorb,
         broken |-> broken]

\* _apply_shield with the Rend chew also passed on to the boss.
ApplyShield_RendHurts(b, dmg0, faction, crit) ==
    LET s == b.shield
        dmg == IF s.type = "bramble" /\ faction # "verdant"
                   THEN (Max(0, dmg0) * BRAMBLE_KEEP_PCT) \div 100
               ELSE IF s.type = "veil" /\ faction # "mistveil"
                   THEN (Max(0, dmg0) * VEIL_KEEP_PCT) \div 100
               ELSE Max(0, dmg0)
        passthrough == IF faction = "gilded" /\ crit
                       THEN Max(0, RoundHalfEven(dmg * 20, 100)) ELSE 0
        to_shield == Max(0, dmg - passthrough)
        s_hp_before == Max(0, s.hp)
        base_absorb == Min(to_shield, s_hp_before)
        extra_chew == IF faction = "thorned" /\ base_absorb > 0
                      THEN RoundHalfEven(base_absorb * THORNED_REND_BONUS_PCT, 100)
                      ELSE 0
        total_absorb == Min(s_hp_before, base_absorb + Max(0, extra_chew))
        new_hp == Max(0, s_hp_before - total_absorb)
        leftover == Max(0, to_shield - base_absorb) + Max(0, extra_chew)
        broken == new_hp <= 0
    IN  [b |-> IF broken THEN [b EXCEPT !.shield = NoShield]
               ELSE [b EXCEPT !.shield.hp = new_hp],
         dmg_to_boss |-> passthrough + leftover,
         absorbed |-> total_absorb,
         broken |-> broken]

\* b has an active shield.  crit: an effect label of the hit contains "crit".
ApplyShield(b, dmg0, faction, crit) ==
    LET s == b.shield
        dmg == IF s.type = "bramble" /\ faction # "verdant"
                   THEN (Max(0, dmg0) * BRAMBLE_KEEP_PCT) \div 100
               ELSE IF s.type = "veil" /\ faction # "mistveil"
                   THEN (Max(0, dmg0) * VEIL_KEEP_PCT) \div 100
               ELSE Max(0, dmg0)
        passthrough == IF faction = "gilded" /\ crit
                       THEN Max(0, RoundHalfEven(dmg * 20, 100)) ELSE 0
        to_shield == Max(0, dmg - passthrough)
        s_hp_before == Max(0, s.hp)
        base_absorb == Min(to_shield, s_hp_before)
        extra_chew == IF faction = "thorned" /\ base_absorb > 0
                      THEN RoundHalfEven(base_absorb * THORNED_REND_BONUS_PCT, 100)
                      ELSE 0
        total_absorb == Min(s_hp_before, base_absorb + Max(0, extra_chew))
        new_hp == Max(0, s_hp_before - total_absorb)
        leftover == Max(0, to_shield - base_absorb)
        broken == new_hp <= 0
    IN  [b |-> IF broken THEN [b EXCEPT !.shield = NoShield]
               ELSE [b EXCEPT !.shield.hp = new_hp],
         dmg_to_boss |-> passthrough + leftover,
         absorbed |-> total_absorb,
         broken |-> broken]

(***************************************************************************)
(* BossCog.boss_attack, the mutation under the lock (lines 463-541)        *)
(***************************************************************************)
PhaseShiftEntry == [user_id |-> "system", faction |-> "", dmg |-> 0]

\* The stages below are the consecutive blocks of the lock body; each one
\* hands its result to the next.

\* Lines 521-541: tally credit, log entry (capped), guard break on a broken
\* shield.  sh is the result of the shield stage, b the boss after the phase
\* switch, actual the damage taken off hp.
CreditAndLog(sh, b, p, actual, switch) ==
    [b |-> [b EXCEPT
              !.tally = TallyPut(@, p, TallyGet(@, p) + actual + sh.absorbed),
              !.last_actions =
                  LastN(Append(@, [user_id |-> p, faction |-> FactionOf(p),
                                   dmg |-> actual]), LogCap),
              !.guard_break = IF sh.broken THEN TRUE ELSE @],
     dmg_to_boss |-> actual,
     credit |-> actual + sh.absorbed,      \* COUNT_SHIELD_DAMAGE_IN_TALLY
     broken |-> sh.broken,
     phase_switched |-> switch]

\* Lines 494-512: the phase switch at half of max_hp.
PhaseSwitch(sh, b, p, actual) ==
    IF b.max_hp > 0 /\ b.phase = 1 /\ b.hp <= b.max_hp \div 2 /\ b.has_p2
    THEN CreditAndLog(sh,
                      [b EXCEPT !.phase = 2,
                                !.last_actions =
                                    LastN(Append(@, PhaseShiftEntry), LogCap)],
                      p, actual, TRUE)
    ELSE CreditAndLog(sh, b, p, actual, FALSE)

\* Lines 487-492: actual = max(0, min(dmg_to_boss, hp)); hp = max(0, hp - actual).
ApplyToHp(sh, p, actual) ==
    PhaseSwitch(sh, [sh.b EXCEPT !.hp = Max(0, @ - actual)], p, actual)

\* Lines 466-485: an active shield takes the hit first.
ThroughShield(b1, p, dmg) ==
    IF b1.shield.type # "none"
    THEN ApplyShield(b1, dmg, FactionOf(p), FALSE)
    ELSE [b |-> b1, dmg_to_boss |-> dmg, absorbed |-> 0, broken |-> FALSE]

ClampedHit(sh, p) == ApplyToHp(sh, p, Max(0, Min(sh.dmg_to_boss, sh.b.hp)))

AttackMutate(b0, p, jitter, gbLive, expired) ==
    ClampedHit(ThroughShield(ShieldActive(b0, expired), p,
                             ComputeDamage(b0, FactionOf(p), jitter, gbLive)),
               p)

(***************************************************************************)
(* energy._add_energy, _spend_energy, claim_daily (regen is its own step)  *)
(***************************************************************************)
\* _add_energy without the clamp to [0, ENERGY_MAX].
AddEnergy_NoClamp(cur, amount) == cur + amount

AddEnergy(cur, amount) ==
    IF amount = 0 THEN cur ELSE Max(0, Min(ENERGY_MAX, cur + amount))

\* _spend_energy without the "cur < cost" refusal.
CanSpend_Always(cur, cost) == TRUE

CanSpend(cur, cost) == cur >= cost

SpendEnergy(cur, cost) == Max(0, cur - cost)

(***************************************************************************)
(* BossCog._handle_kill                                                    *)
(***************************************************************************)
\* int(pool * (dmg / total)): the float product, truncated.
Reward(tally, p) ==
    LET total == IF TallyTotal(tally) = 0 THEN 1 ELSE TallyTotal(tally)
        participants == Max(1, Cardinality(DOMAIN tally))
        pool == Max(REWARD_PER_PLAYER * participants, REWARD_MIN * participants)
    IN  Max(REWARD_MIN, Min(REWARD_MAX, (pool * tally[p]) \div total))

\* The payout loop over the snapshot's tally (lines 582-598).
PayGold(g, b) ==
    [p \in Players |->
        IF p \in DOMAIN b.tally THEN g[p] + Reward(b.tally, p) ELSE g[p]]

\* "Reset fight state" (lines 632-638): the tally is not touched.
KillResetDoc(b) ==
    [b EXCEPT !.hp = 0, !.last_actions = << >>, !.shield = NoShield]


(***************************************************************************)
(* State                                                                   *)
(***************************************************************************)
VARIABLES
    disk,       \* data/boss.json
    lock,       \* boss_state_lock: the task holding it, or NoTask
    pc,         \* where each boss_attack invocation stands
    user,       \* interaction.user of each invocation
    loc,        \* the invocation's in-memory boss dict (b, then b_after)
    hit,        \* its dmg_to_boss
    credit,     \* its tally credit
    dealt,      \* sum of dmg_to_boss over the attacks whose save returned
    credited,   \* per player, sum of credit over those attacks
    out,        \* how the invocation ended
    killer,     \* the invocation's committed hit took hp from above 0 to 0
    fresh,      \* loc was loaded inside the lock hold that is still running
    saved,      \* the last save_boss wrote a dict loaded inside the hold it ran in
    energy,     \* raid_energy of each profile
    claimed,    \* the daily claim was taken inside the current 24h window
    gold,       \* gold_dust of each profile
    gains,      \* energy was added to the profile (regen, claim, refund)
    start,      \* hp, tally and energy at the start of the run
    ops,        \* admin commands and scheduler ticks so far
    tops,       \* regen ticks and daily claims so far
    store,      \* storage.py on its own: the files, the save_boss under way
    ledger,     \* energy.py on its own: the clock and one profile
    calc,       \* damage.py on its own: the boss, the attacker, the roll
    fight,      \* one boss fought by one attack at a time, with the clock
    purse,      \* the payout of _handle_kill on its own: tally and rewards
    wheel       \* the weakness rotation on its own: the boss and its visits

vars == <<disk, lock, pc, user, loc, hit, credit, dealt, credited, out,
          killer, fresh, saved, energy, claimed, gold, gains, start, ops, tops,
          store, ledger, calc, fight, purse, wheel>>

taskVars == <<pc, user, loc, hit, credit, dealt, credited, out, killer, fresh>>
profileVars == <<energy, claimed, gold, gains>>
harnessVars == <<store, ledger, calc, fight, purse, wheel>>

\* The stand-alone harnesses are not running.
StoreIdle == store = [at |-> "off"]
LedgerIdle == ledger = [at |-> "off"]
CalcIdle == calc = [at |-> "off"]
FightIdle == fight = [at |-> "off"]
PurseIdle == purse = [at |-> "off"]
WheelIdle == wheel = [at |-> "off"]
HarnessIdle ==
    StoreIdle /\ LedgerIdle /\ CalcIdle /\ FightIdle /\ PurseIdle /\ WheelIdle

MainInit ==
    /\ disk = SpawnedBoss(BlankBoss, InitHp)
    /\ lock = NoTask
    /\ pc = [t \in Tasks |-> "idle"]
    /\ user = [t \in Tasks |-> NoPlayer]
    /\ loc = [t \in Tasks |-> BlankBoss]
    /\ hit = [t \in Tasks |-> 0]
    /\ credit = [t \in Tasks |-> 0]
    /\ dealt = 0
    /\ credited = [p \in Players |-> 0]
    /\ out = [t \in Tasks |-> "none"]
    /\ killer = [t \in Tasks |-> FALSE]
    /\ fresh = [t \in Tasks |-> FALSE]
    /\ saved = TRUE
    /\ energy = [p \in Players |-> InitEnergy(p)]
    /\ claimed = [p \in Players |-> FALSE]
    /\ gold = [p \in Players |-> 0]
    /\ gains = [p \in Players |-> FALSE]
    /\ start = [hp |-> InitHp, tally |-> EmptyTally, energy |-> energy]
    /\ ops = 0
    /\ tops = 0

Init == MainInit /\ HarnessIdle

\* "async with boss_state_lock" dropped: nobody ever waits.
LockFree_NoWait == TRUE

\* asyncio.Lock: free to take.
LockFree == lock = NoTask

\* A lock body left with the lock still held by the task that took it.
ReleaseLock_Kept(t) == t

\* "async with boss_state_lock": leaving the body, by return or by an
\* exception, releases the lock.
ReleaseLock(t) == NoTask

(***************************************************************************)
(* BossCog.boss_attack                                                     *)
(***************************************************************************)
\* A rejected press that spends 1 energy on its way out.
EnergyOnReject_Spent(cur) == SpendEnergy(cur, 1)

\* Lines 391-431: a press rejected by the cooldown or the dead pre-check
\* returns before _spend_energy is called, and _spend_energy returning False
\* has written nothing: the stored energy is what it was.
EnergyOnReject(cur) == cur

\* The player has pressed /boss_attack before (_LAST_HIT_AT has an entry).
HasHitBefore(p) == \E t \in Tasks : user[t] = p /\ out[t] # "cooldown"

\* Lines 384-434: cooldown, dead pre-check, energy spend, defer.
\* Invocations are numbered in the order they arrive.  recent: the player's
\* last accepted press is less than USER_COOLDOWN_SEC old.
AttackBegin(t, p, recent) ==
    /\ pc[t] = "idle"
    /\ IF t = 1 THEN TRUE ELSE pc[t - 1] # "idle"
    /\ user' = [user EXCEPT ![t] = p]
    /\ IF HasHitBefore(p) /\ recent
       THEN /\ pc' = [pc EXCEPT ![t] = "done"]
            /\ out' = [out EXCEPT ![t] = "cooldown"]
            /\ energy' = [energy EXCEPT ![p] = EnergyOnReject(@)]
       ELSE IF LoadBoss(disk).hp <= 0
       THEN /\ pc' = [pc EXCEPT ![t] = "done"]
            /\ out' = [out EXCEPT ![t] = "dead"]
            /\ energy' = [energy EXCEPT ![p] = EnergyOnReject(@)]
       ELSE IF ~CanSpend(energy[p], 1)
       THEN /\ pc' = [pc EXCEPT ![t] = "done"]
            /\ out' = [out EXCEPT ![t] = "noenergy"]
            /\ energy' = [energy EXCEPT ![p] = EnergyOnReject(@)]
       ELSE /\ energy' = [energy EXCEPT ![p] = SpendEnergy(@, 1)]
            /\ pc' = [pc EXCEPT ![t] = "wantlock"]
            /\ UNCHANGED out
    /\ UNCHANGED <<disk, lock, loc, hit, credit, dealt, credited, killer,
                   fresh, saved, claimed, gold, gains, start, harnessVars, ops, tops>>

\* Lines 449-541: take the lock, reload, re-validate, then either refund
\* (boss already dead) or compute the hit on the in-memory dict.
AttackLock(t) ==
    /\ pc[t] = "wantlock"
    /\ LockFree
    /\ lock' = t
    /\ fresh' = [fresh EXCEPT ![t] = TRUE]
    /\ LET b == LoadBoss(disk)
       IN  IF b.hp <= 0
           THEN /\ energy' = [energy EXCEPT ![user[t]] = AddEnergy(@, 1)]
                /\ gains' = [gains EXCEPT ![user[t]] = TRUE]
                /\ pc' = [pc EXCEPT ![t] = "toolate"]
                /\ UNCHANGED <<loc, hit, credit>>
           ELSE \E r \in {AttackMutate(b, user[t], jitter, gbLive, expired) :
                             jitter \in JitterPcts,
                             gbLive \in (IF b.guard_break THEN BOOLEAN ELSE {FALSE}),
                             expired \in (IF b.shield.type # "none" THEN BOOLEAN
                                          ELSE {FALSE})} :
                  /\ loc' = [loc EXCEPT ![t] = r.b]
                  /\ hit' = [hit EXCEPT ![t] = r.dmg_to_boss]
                  /\ credit' = [credit EXCEPT ![t] = r.credit]
                  /\ pc' = [pc EXCEPT ![t] = "saving"]
                  /\ UNCHANGED <<energy, gains>>
    /\ UNCHANGED <<disk, user, dealt, credited, out, killer, saved, claimed,
                   gold, start, harnessVars, ops, tops>>

\* Lines 457-461: the "too late" reply is sent with the lock held; the
\* return (or the exception of a failed send) releases it.
AttackTooLate(t) ==
    /\ pc[t] = "toolate"
    /\ lock' = ReleaseLock(t)
    /\ fresh' = [fresh EXCEPT ![t] = FALSE]
    /\ pc' = [pc EXCEPT ![t] = "done"]
    /\ out' = [out EXCEPT ![t] = "toolate"]
    /\ UNCHANGED <<disk, user, loc, hit, credit, dealt, credited, killer,
                   saved, profileVars, start, harnessVars, ops, tops>>

\* Lines 543-544: save_boss returns, b_after is kept, the lock is released.
AttackSave(t) ==
    /\ pc[t] = "saving"
    /\ disk' = SaveBoss(loc[t])
    /\ saved' = fresh[t]
    /\ killer' = [killer EXCEPT ![t] = loc[t].hp <= 0]
    /\ lock' = ReleaseLock(t)
    /\ fresh' = [fresh EXCEPT ![t] = FALSE]
    /\ pc' = [pc EXCEPT ![t] = "reply"]
    /\ dealt' = dealt + hit[t]
    /\ credited' = [credited EXCEPT ![user[t]] = @ + credit[t]]
    /\ UNCHANGED <<user, loc, hit, credit, out, profileVars, start, harnessVars, ops, tops>>

\* Line 543: save_boss raises (storage._write_json has no handler around
\* write_text / replace); the exception leaves the lock body and the command.
AttackSaveFail(t) ==
    /\ pc[t] = "saving"
    /\ lock' = ReleaseLock(t)
    /\ fresh' = [fresh EXCEPT ![t] = FALSE]
    /\ loc' = [loc EXCEPT ![t] = BlankBoss]
    /\ hit' = [hit EXCEPT ![t] = 0]
    /\ credit' = [credit EXCEPT ![t] = 0]
    /\ pc' = [pc EXCEPT ![t] = "done"]
    /\ out' = [out EXCEPT ![t] = "savefail"]
    /\ disk' \in {DocAfterRaise(disk, loc[t], at) : at \in RaisePoints}
    /\ UNCHANGED <<user, dealt, credited, killer, saved, profileVars,
                   start, harnessVars, ops, tops>>

\* Lines 546-576: the public reply and the board posts are delivered; on a
\* kill the command goes on to _handle_kill with b_after.
AttackReply(t) ==
    /\ pc[t] = "reply"
    /\ IF loc[t].hp <= 0
       THEN /\ pc' = [pc EXCEPT ![t] = "payout"]
            /\ UNCHANGED <<out, loc>>
       ELSE /\ pc' = [pc EXCEPT ![t] = "done"]
            /\ out' = [out EXCEPT ![t] = "hit"]
            /\ loc' = [loc EXCEPT ![t] = BlankBoss]
    /\ hit' = [hit EXCEPT ![t] = 0]
    /\ credit' = [credit EXCEPT ![t] = 0]
    /\ UNCHANGED <<disk, lock, user, dealt, credited, killer, fresh, saved,
                   profileVars, start, harnessVars, ops, tops>>

\* Line 562: interaction.followup.send raises; nothing after it runs.
AttackReplyFail(t) ==
    /\ pc[t] = "reply"
    /\ pc' = [pc EXCEPT ![t] = "done"]
    /\ out' = [out EXCEPT ![t] = "replyfail"]
    /\ loc' = [loc EXCEPT ![t] = BlankBoss]
    /\ hit' = [hit EXCEPT ![t] = 0]
    /\ credit' = [credit EXCEPT ![t] = 0]
    /\ UNCHANGED <<disk, lock, user, dealt, credited, killer, fresh, saved,
                   profileVars, start, harnessVars, ops, tops>>

\* _handle_kill, lines 580-598: gold is credited from the tally of the
\* snapshot the caller passed in.
HandleKillPay(t) ==
    /\ pc[t] = "payout"
    /\ gold' = PayGold(gold, loc[t])
    /\ pc' = [pc EXCEPT ![t] = "killreset"]
    /\ UNCHANGED <<disk, lock, user, loc, hit, credit, dealt, credited, out,
                   killer, fresh, saved, energy, claimed, gains, start, harnessVars, ops, tops>>

\* _handle_kill, lines 631-639: under the lock, the snapshot taken by the
\* attack is reset and written back.
KillReset(t) ==
    /\ pc[t] = "killreset"
    /\ LockFree
    /\ disk' = SaveBoss(KillResetDoc(loc[t]))
    /\ saved' = fresh[t]
    /\ pc' = [pc EXCEPT ![t] = "done"]
    /\ out' = [out EXCEPT ![t] = "killed"]
    /\ loc' = [loc EXCEPT ![t] = BlankBoss]
    /\ UNCHANGED <<lock, user, hit, credit, dealt, credited, killer, fresh,
                   profileVars, start, harnessVars, ops, tops>>

(***************************************************************************)
(* Admin commands and the scheduler: load, edit and save inside one hold   *)
(***************************************************************************)
AdminSave(b) ==
    /\ LockFree
    /\ ops < MaxOps
    /\ ops' = ops + 1
    /\ disk' = SaveBoss(b)
    /\ saved' = TRUE
    /\ UNCHANGED <<lock, taskVars, profileVars, start, harnessVars, tops>>

\* The command's save_boss raises: "async with" releases the lock, the
\* edited dict is dropped (the scheduler swallows the exception, lines 49-52).
AdminSaveFail(b) ==
    /\ LockFree
    /\ ops < MaxOps
    /\ disk' \in {DocAfterRaise(disk, b, at) : at \in RaisePoints}
    /\ UNCHANGED <<lock, taskVars, profileVars, saved, start, harnessVars, ops, tops>>

\* BossCog.boss_spawn
BossSpawn(hp) == AdminSave(SpawnedBoss(LoadBoss(disk), hp))

\* set_hp without "max_hp = max(max_hp, hp)".
SetHpDoc_KeepMax(b, hp) == [b EXCEPT !.hp = Max(0, hp)]

SetHpDoc(b, hp) == [b EXCEPT !.hp = Max(0, hp), !.max_hp = Max(b.max_hp, hp)]

\* BossCog.boss_set_hp
BossSetHp(hp) == AdminSave(SetHpDoc(LoadBoss(disk), hp))

\* BossCog.boss_add_shield (no percent argument)
BossAddShield(kind) == AdminSave(SpawnShield(LoadBoss(disk), kind))

\* The idle heal without the cap at max_hp.
IdleHealDoc_NoCap(b) ==
    LET mx == Max(1, b.max_hp)
        heal == Max(1, (mx * IDLE_HEAL_PCT) \div 100)
    IN  [b EXCEPT !.hp = b.hp + heal]

IdleHealDoc(b) ==
    LET mx == Max(1, b.max_hp)
        heal == Max(1, (mx * IDLE_HEAL_PCT) \div 100)
    IN  [b EXCEPT !.hp = Min(mx, b.hp + heal)]

\* BossScheduler.boss_idle_regen; idle: every logged action is older than
\* IDLE_HEAL_MINUTES.
BossIdleRegen(idle) ==
    /\ LoadBoss(disk).hp > 0
    /\ IF Len(LoadBoss(disk).last_actions) = 0 THEN TRUE ELSE idle
    /\ AdminSave(IdleHealDoc(LoadBoss(disk)))

\* BossCog.boss_set_hp, save_boss raising.
BossSetHpFail(hp) == AdminSaveFail(SetHpDoc(LoadBoss(disk), hp))

\* BossScheduler.boss_idle_regen, save_boss raising.
BossIdleRegenFail(idle) ==
    /\ LoadBoss(disk).hp > 0
    /\ IF Len(LoadBoss(disk).last_actions) = 0 THEN TRUE ELSE idle
    /\ AdminSaveFail(IdleHealDoc(LoadBoss(disk)))

(***************************************************************************)
(* Energy ledger                                                           *)
(***************************************************************************)
\* energy._materialize with one whole regen tick elapsed.
RegenTick(p) ==
    /\ tops < MaxTopUps
    /\ energy[p] < ENERGY_MAX
    /\ tops' = tops + 1
    /\ energy' = [energy EXCEPT ![p] = Min(ENERGY_MAX, @ + 1)]
    /\ gains' = [gains EXCEPT ![p] = TRUE]
    /\ UNCHANGED <<disk, lock, taskVars, saved, claimed, gold, start, harnessVars, ops>>

\* energy.claim_daily, the granted case.
ClaimDaily(p) ==
    /\ tops < MaxTopUps
    /\ energy[p] < ENERGY_MAX
    /\ ~claimed[p]
    /\ LET grant == Max(0, Min(Max(0, RAID_DAILY_CLAIM_AMOUNT),
                               ENERGY_MAX - energy[p]))
       IN  /\ grant > 0
           /\ energy' = [energy EXCEPT ![p] = AddEnergy(@, grant)]
    /\ tops' = tops + 1
    /\ claimed' = [claimed EXCEPT ![p] = TRUE]
    /\ gains' = [gains EXCEPT ![p] = TRUE]
    /\ UNCHANGED <<disk, lock, taskVars, saved, gold, start, harnessVars, ops>>

(***************************************************************************)
(* Specifications                                                          *)
(***************************************************************************)
AttackStep ==
    \/ \E t \in Tasks, p \in Players, recent \in BOOLEAN : AttackBegin(t, p, recent)
    \/ \E t \in Tasks : AttackLock(t)
    \/ \E t \in Tasks : AttackTooLate(t)
    \/ \E t \in Tasks : AttackSave(t)
    \/ \E t \in Tasks : AttackSaveFail(t)
    \/ \E t \in Tasks : AttackReply(t)
    \/ \E t \in Tasks : AttackReplyFail(t)
    \/ \E t \in Tasks : HandleKillPay(t)
    \/ \E t \in Tasks : KillReset(t)

\* Admin commands and the scheduler tick on the boss document.
BossStep ==
    \/ \E hp \in SpawnHps : BossSpawn(hp)
    \/ \E hp \in SetHps : BossSetHp(hp)
    \/ \E kind \in ShieldKinds : BossAddShield(kind)
    \/ \E idle \in BOOLEAN : BossIdleRegen(idle)

\* Admin commands and scheduler ticks whose save_boss raises.
BossFailStep ==
    \/ \E hp \in SetHps : BossSetHpFail(hp)
    \/ \E idle \in BOOLEAN : BossIdleRegenFail(idle)

\* Energy entering a player's ledger from outside the attack.
LedgerStep ==
    \/ \E p \in Players : RegenTick(p)
    \/ \E p \in Players : ClaimDaily(p)

Next == AttackStep \/ BossStep \/ LedgerStep

Spec == Init /\ [][Next]_vars

\* Attacks next to admin commands and scheduler ticks.
SpecBoss == Init /\ [][AttackStep \/ BossStep]_vars

\* Attacks next to admin commands and scheduler ticks that fail to save.
SpecSaveFail == Init /\ [][AttackStep \/ BossFailStep]_vars

\* Attacks next to regen ticks and daily claims.
SpecLedger == Init /\ [][AttackStep \/ LedgerStep]_vars

\* Attacks only: no admin command, no scheduler tick, no energy top-up.
SpecAttacks == Init /\ [][AttackStep]_vars

\* The attack steps in which save_boss and the replies return.
AttackOkStep ==
    \/ \E t \in Tasks, p \in Players, recent \in BOOLEAN : AttackBegin(t, p, recent)
    \/ \E t \in Tasks : AttackLock(t)
    \/ \E t \in Tasks : AttackTooLate(t)
    \/ \E t \in Tasks : AttackSave(t)
    \/ \E t \in Tasks : AttackReply(t)
    \/ \E t \in Tasks : HandleKillPay(t)
    \/ \E t \in Tasks : KillReset(t)

\* The event loop resumes every task that can go on: a task whose awaited
\* call has returned, and a task waiting for a lock that stays free.  Whether
\* a player presses /boss_attack at all is left open.
\* What invocation t does next once it has been started; its position
\* enables at most one of these.
AttackGoesOn(t) ==
    \/ AttackLock(t)
    \/ AttackTooLate(t)
    \/ AttackSave(t)
    \/ AttackReply(t)
    \/ HandleKillPay(t)
    \/ KillReset(t)

AttackFairness == \A t \in Tasks : WF_vars(AttackGoesOn(t))

SpecAttacksFair == Init /\ [][AttackOkStep]_vars /\ AttackFairness

\* Attacks whose awaited calls return, next to admin commands and scheduler
\* ticks.
SpecBossOk == Init /\ [][AttackOkStep \/ BossStep]_vars

(***************************************************************************)
(* _handle_kill on its own: repeated invocations for one kill              *)
(***************************************************************************)
KillDmgs == {InitHp - MIN_HIT_ABS, MIN_HIT_ABS, InitHp}

\* Tallies of a boss of InitHp hit points brought to 0 by attacks.
KillTallies ==
    {ty \in UNION {[S -> KillDmgs] : S \in (SUBSET Players) \ {{}}} :
        TallyTotal(ty) = InitHp}

\* The document the killing attack saved (phase 2, one log line per hitter).
KilledBoss(ty) ==
    LET line(p) == [user_id |-> p, faction |-> FactionOf(p), dmg |-> ty[p]]
        log == IF DOMAIN ty = Players THEN <<line("p1"), line("p2")>>
               ELSE <<line(CHOOSE p \in DOMAIN ty : TRUE)>>
    IN  [SpawnedBoss(BlankBoss, InitHp) EXCEPT
            !.hp = 0, !.phase = 2, !.tally = ty,
            !.last_actions = <<PhaseShiftEntry>> \o log]

InitKill ==
    /\ \E ty \in KillTallies :
          /\ disk = KilledBoss(ty)
          /\ start = [hp |-> InitHp, tally |-> ty,
                      energy |-> [p \in Players |-> InitEnergy(p)]]
    /\ lock = NoTask
    /\ pc = [t \in Tasks |-> "idle"]
    /\ user = [t \in Tasks |-> NoPlayer]
    /\ loc = [t \in Tasks |-> BlankBoss]
    /\ hit = [t \in Tasks |-> 0]
    /\ credit = [t \in Tasks |-> 0]
    /\ dealt = InitHp
    /\ credited = [p \in Players |-> TallyGet(disk.tally, p)]
    /\ out = [t \in Tasks |-> "none"]
    /\ killer = [t \in Tasks |-> FALSE]
    /\ fresh = [t \in Tasks |-> FALSE]
    /\ saved = TRUE
    /\ energy = [p \in Players |-> InitEnergy(p)]
    /\ claimed = [p \in Players |-> FALSE]
    /\ gold = [p \in Players |-> 0]
    /\ gains = [p \in Players |-> FALSE]
    /\ ops = 0
    /\ tops = 0
    /\ HarnessIdle

\* Line 576 / 579: _handle_kill(interaction, b) is entered with the persisted
\* document of the dead boss as its snapshot.
InvokeKill(t) ==
    /\ pc[t] = "idle"
    /\ IF t = 1 THEN TRUE ELSE pc[t - 1] # "idle"
    /\ LoadBoss(disk).hp <= 0
    /\ loc' = [loc EXCEPT ![t] = LoadBoss(disk)]
    /\ pc' = [pc EXCEPT ![t] = "payout"]
    /\ UNCHANGED <<disk, lock, user, hit, credit, dealt, credited, out, killer,
                   fresh, saved, profileVars, start, harnessVars, ops, tops>>

KillStep ==
    \/ \E t \in Tasks : InvokeKill(t)
    \/ \E t \in Tasks : HandleKillPay(t)
    \/ \E t \in Tasks : KillReset(t)

SpecKill == InitKill /\ [][KillStep]_vars

(***************************************************************************)
(* storage.py on its own: load_boss and save_boss statement by statement,  *)
(* with exceptions and with the process dying between two statements       *)
(***************************************************************************)
mainVars == <<disk, lock, pc, user, loc, hit, credit, dealt, credited, out,
              killer, fresh, saved, energy, claimed, gold, gains, start, ops, tops>>

\* save_boss calls in one run of the harness.
MaxSaves == 2

\* The "catalog" key of a dict: missing, {} or the presets.
Catalogs == {"missing", "empty", "presets"}

\* Values the caller gives the boss fields (hp stands for all of them).
StoreHps == {1, 2}

\* {} from _read_json, and _default_boss() which "data or ..." puts in its place.
NoData == [hp |-> 0, catalog |-> "missing"]

\* _read_json, lines 19-32: the parsed dict; {} for a missing or unparseable file.
ReadJsonData(content) == IF content.kind = "json" THEN content.data ELSE NoData

\* _read_json that leaves an unparseable file where it is.
ReadJsonFiles_InPlace(fs, path) == fs

\* _read_json, lines 25-31: an unparseable file is renamed to .bad-<ts>.
ReadJsonFiles(fs, path) ==
    IF fs[path].kind = "torn"
    THEN [fs EXCEPT ![path] = AbsentFile, ![BadName(path)] = fs[path]]
    ELSE fs

\* load_boss that does not take "catalog" over from the file.
LoadDoc_NoCatalog(content) ==
    [EnsureShape(ReadJsonData(content)) EXCEPT !.catalog = "empty"]

\* load_boss, lines 52-59.
LoadDoc(content) ==
    LET data == ReadJsonData(content)
        boss == EnsureShape(data)
    IN  IF data.catalog # "missing"
        THEN [boss EXCEPT !.catalog = data.catalog]
        ELSE [boss EXCEPT !.catalog = "empty"]

\* Lines 66-70 without the injection of the on-disk catalog.
SaveMerge_NoInject(on_disk, b) == EnsureShape(b)

\* save_boss, lines 66-70.
SaveMerge(on_disk, b) ==
    EnsureShape(IF on_disk.catalog # "missing" /\ b.catalog = "missing"
                THEN [b EXCEPT !.catalog = on_disk.catalog]
                ELSE b)

\* _load_catalog of boss.py: data.get("catalog") or {}.
CatalogOf(content) ==
    IF ReadJsonData(content).catalog = "missing" THEN "empty"
    ELSE ReadJsonData(content).catalog

\* data/boss.json is missing (first start) or holds a whole document.
InitStore ==
    /\ MainInit
    /\ LedgerIdle
    /\ CalcIdle
    /\ FightIdle /\ PurseIdle /\ WheelIdle
    /\ \E first \in {AbsentFile} \cup {Json([hp |-> 0, catalog |-> c]) : c \in Catalogs} :
          store = [at |-> "idle",
                   files |-> [f \in FileNames |-> IF f = BOSS_FILE THEN first ELSE AbsentFile],
                   snap |-> NoData,
                   out |-> ReadJsonData(first),
                   prev |-> first,
                   catalog0 |-> CatalogOf(first),
                   saves |-> 0]

\* b = await load_boss()
StoreLoad ==
    /\ store.at = "idle"
    /\ store' = [store EXCEPT !.snap = LoadDoc(store.files[BOSS_FILE]),
                              !.files = ReadJsonFiles(store.files, BOSS_FILE)]
    /\ UNCHANGED <<mainVars, ledger, calc, fight, purse, wheel>>

\* The caller edits its dict and calls save_boss; strip: the dict handed over
\* has no "catalog" key.  Lines 65-70 run.
StoreSaveBegin(hp, strip) ==
    /\ store.at = "idle"
    /\ store.saves < MaxSaves
    /\ LET b == [hp |-> hp,
                 catalog |-> IF strip THEN "missing" ELSE store.snap.catalog]
       IN  store' = [store EXCEPT
                        !.at = "merged",
                        !.out = SaveMerge(ReadJsonData(store.files[BOSS_FILE]), b),
                        !.prev = store.files[BOSS_FILE],
                        !.files = ReadJsonFiles(store.files, BOSS_FILE),
                        !.saves = @ + 1]
    /\ UNCHANGED <<mainVars, ledger, calc, fight, purse, wheel>>

\* Line 39.
StoreWriteTmp ==
    /\ store.at = "merged"
    /\ store' = [store EXCEPT !.at = "tmp",
                              !.files = WriteTmpText(store.files, BOSS_FILE, store.out)]
    /\ UNCHANGED <<mainVars, ledger, calc, fight, purse, wheel>>

\* Line 40.
StoreReplace ==
    /\ store.at = "tmp"
    /\ store' = [store EXCEPT !.at = "replaced",
                              !.files = ReplaceTmp(store.files, BOSS_FILE)]
    /\ UNCHANGED <<mainVars, ledger, calc, fight, purse, wheel>>

\* Lines 42-46: the backup is written, or its failure is swallowed.
StoreBackup(whole) ==
    /\ store.at = "replaced"
    /\ store' = [store EXCEPT
                    !.at = "idle",
                    !.files = IF whole THEN WriteBakText(store.files, BOSS_FILE, store.out)
                              ELSE WriteBakTorn(store.files, BOSS_FILE, store.out)]
    /\ UNCHANGED <<mainVars, ledger, calc, fight, purse, wheel>>

\* _write_json raises; the caller's command ends.
StoreRaise(point) ==
    /\ store.at = "merged"
    /\ store' = [store EXCEPT
                    !.at = "idle",
                    !.files = WriteJsonRaised(store.files, BOSS_FILE, store.out, point)]
    /\ UNCHANGED <<mainVars, ledger, calc, fight, purse, wheel>>

\* The process dies inside save_boss and is started again; cut: it died in
\* the middle of the write_text it was about to do.
StoreCrash(cut) ==
    /\ store.at \in {"merged", "tmp", "replaced"}
    /\ store' = [store EXCEPT
                    !.at = "idle",
                    !.snap = NoData,
                    !.files = IF ~cut \/ store.at = "tmp" THEN store.files
                              ELSE IF store.at = "merged"
                                   THEN WriteTmpTorn(store.files, BOSS_FILE, store.out)
                                   ELSE WriteBakTorn(store.files, BOSS_FILE, store.out)]
    /\ UNCHANGED <<mainVars, ledger, calc, fight, purse, wheel>>

StoreStep ==
    \/ StoreLoad
    \/ \E hp \in StoreHps, strip \in BOOLEAN : StoreSaveBegin(hp, strip)
    \/ StoreWriteTmp
    \/ StoreReplace
    \/ \E whole \in BOOLEAN : StoreBackup(whole)
    \/ \E point \in RaisePoints : StoreRaise(point)
    \/ \E cut \in BOOLEAN : StoreCrash(cut)

SpecStore == InitStore /\ [][StoreStep]_vars

\* data/boss.json holds text that json.loads rejects (damaged from outside:
\* save_boss itself never leaves such a file).
InitStoreCorrupt ==
    /\ MainInit
    /\ LedgerIdle
    /\ CalcIdle
    /\ FightIdle /\ PurseIdle /\ WheelIdle
    /\ \E first \in {Torn([hp |-> h, catalog |-> c]) : h \in StoreHps, c \in Catalogs} :
          store = [at |-> "idle",
                   files |-> [f \in FileNames |-> IF f = BOSS_FILE THEN first ELSE AbsentFile],
                   snap |-> NoData,
                   out |-> ReadJsonData(first),
                   prev |-> first,
                   catalog0 |-> CatalogOf(first),
                   saves |-> 0]

SpecStoreCorrupt == InitStoreCorrupt /\ [][StoreStep]_vars

(***************************************************************************)
(* energy.py on its own: one profile, the wall clock, and the energy       *)
(* commands of boss.py (status, attack spend, refund, claim, buy)          *)
(***************************************************************************)
\* settings.RAID_REGEN_MIN, energy._WINDOW_SEC, energy.ENERGY_BUY_LIMIT_PER_DAY,
\* settings.RAID_ENERGY_COST
ENERGY_REGEN_MINUTES == 20
WINDOW_SEC == 86400
ENERGY_BUY_LIMIT_PER_DAY == 5
ENERGY_SHOP_PRICE == 1000

\* Energy calls in one run of the harness, and moves of the clock.
MaxCalls == 4
MaxAdvances == 3
MaxHits == 3
MaxFightMoves == 2
MaxFightOps == 2
MaxRotations == 5
MaxHealTicks == 3
MaxMinutes == 4
MaxRotateOps == 2

\* time.time() when the run starts; half a regen tick and a whole day pass.
StartTime == 100000
Advances == {600, WINDOW_SEC}

SpendCosts == {1, 2}
BuyAmounts == {1, 3}

\* _materialize moving the anchor to the time of the call.
Materialize_AnchorNow(prof, now) ==
    IF prof.raid_energy >= ENERGY_MAX
    THEN [prof EXCEPT !.raid_energy_ts = now]
    ELSE IF ENERGY_REGEN_MINUTES <= 0 THEN prof
    ELSE IF prof.raid_energy_ts <= 0
    THEN [prof EXCEPT !.raid_energy_ts = now]
    ELSE LET elapsed_min == Max(0, now - prof.raid_energy_ts) \div 60
             ticks == elapsed_min \div ENERGY_REGEN_MINUTES
         IN  IF ticks <= 0 THEN prof
             ELSE [prof EXCEPT
                     !.raid_energy = Min(ENERGY_MAX, prof.raid_energy + ticks),
                     !.raid_energy_ts = now]

\* _materialize, lines 46-77: the profile after the call.
Materialize(prof, now) ==
    IF prof.raid_energy >= ENERGY_MAX
    THEN [prof EXCEPT !.raid_energy_ts = now]
    ELSE IF ENERGY_REGEN_MINUTES <= 0 THEN prof
    ELSE IF prof.raid_energy_ts <= 0
    THEN [prof EXCEPT !.raid_energy_ts = now]
    ELSE LET elapsed_min == Max(0, now - prof.raid_energy_ts) \div 60
             ticks == elapsed_min \div ENERGY_REGEN_MINUTES
         IN  IF ticks <= 0 THEN prof
             ELSE [prof EXCEPT
                     !.raid_energy = Min(ENERGY_MAX, prof.raid_energy + ticks),
                     !.raid_energy_ts = @ + ticks * ENERGY_REGEN_MINUTES * 60]

\* _get_energy: the value _materialize returns.
GetEnergy(prof, now) == Min(ENERGY_MAX, Materialize(prof, now).raid_energy)

\* _add_energy, lines 85-91.
AddEnergyAt(prof, amount, now) ==
    IF amount = 0 THEN Materialize(prof, now)
    ELSE [Materialize(prof, now) EXCEPT
            !.raid_energy = AddEnergy(GetEnergy(prof, now), amount),
            !.raid_energy_ts = now]

\* _spend_energy, lines 94-100: (ok, profile after).
SpendEnergyAt(prof, cost, now) ==
    IF ~CanSpend(GetEnergy(prof, now), cost)
    THEN [ok |-> FALSE, prof |-> Materialize(prof, now)]
    ELSE [ok |-> TRUE,
          prof |-> [Materialize(prof, now) EXCEPT
                      !.raid_energy = SpendEnergy(GetEnergy(prof, now), cost),
                      !.raid_energy_ts = now]]

\* claim_daily without the 24h check of line 115.
ClaimWindowOpen_Always(last, now) == TRUE

\* claim_daily, line 115: no claim yet, or the last one is 24h old.
ClaimWindowOpen(last, now) == ~(last # 0 /\ now - last < WINDOW_SEC)

\* claim_daily, lines 105-128.
ClaimDailyAt(prof, now) ==
    LET cur == GetEnergy(prof, now)
        grant == Max(0, Min(Max(0, RAID_DAILY_CLAIM_AMOUNT), ENERGY_MAX - cur))
    IN  IF cur >= ENERGY_MAX \/ ~ClaimWindowOpen(prof.raid_energy_daily_ts, now) \/ grant <= 0
        THEN [ok |-> FALSE, prof |-> Materialize(prof, now)]
        ELSE [ok |-> TRUE,
              prof |-> [AddEnergyAt(prof, grant, now) EXCEPT !.raid_energy_daily_ts = now]]

\* _trimmed_buy_log, lines 133-149: the entries of the last 24h.  An entry
\* is the UTC second of the purchase (isoformat() of an aware datetime, which
\* fromisoformat() reads back to the same instant).
TrimmedBuyLog(log, now) ==
    LET Recent(ts) == ts >= now - WINDOW_SEC
    IN  SelectSeq(log, Recent)

\* buy_energy_allowed letting through a log that is already full.
BuyAllowed_OneMore(log) == Len(log) <= ENERGY_BUY_LIMIT_PER_DAY

\* buy_energy_allowed, lines 157-167.
BuyAllowed(log) == ~(Len(log) >= ENERGY_BUY_LIMIT_PER_DAY)

\* BossCog.energy_buy, lines 1150-1192: (ok, profile after).
EnergyBuyAt(prof, amount, now) ==
    LET cur == GetEnergy(prof, now)
        m == Materialize(prof, now)
        trimmed == [m EXCEPT !.raid_energy_buy_log = TrimmedBuyLog(@, now)]
        amt == Min(amount, ENERGY_MAX - cur)
        cost == amt * ENERGY_SHOP_PRICE
        paid == [trimmed EXCEPT !.gold_dust = @ - cost]
        granted == AddEnergyAt(paid, amt, now)
    IN  IF amount <= 0 THEN [ok |-> FALSE, prof |-> prof]
        ELSE IF cur >= ENERGY_MAX THEN [ok |-> FALSE, prof |-> m]
        ELSE IF ~BuyAllowed(trimmed.raid_energy_buy_log) THEN [ok |-> FALSE, prof |-> trimmed]
        ELSE IF trimmed.gold_dust < cost THEN [ok |-> FALSE, prof |-> trimmed]
        ELSE [ok |-> TRUE,
              prof |-> [granted EXCEPT
                          !.raid_energy_buy_log = Append(TrimmedBuyLog(@, now), now)]]

\* A profile that never touched raid energy, and one that bought four
\* times in the second before the run starts.
NewProfile ==
    [raid_energy |-> 0, raid_energy_ts |-> 0, raid_energy_daily_ts |-> 0,
     raid_energy_buy_log |-> << >>, gold_dust |-> 3 * ENERGY_SHOP_PRICE]
BuyerProfile ==
    [raid_energy |-> 4, raid_energy_ts |-> StartTime, raid_energy_daily_ts |-> 0,
     raid_energy_buy_log |-> <<StartTime, StartTime, StartTime, StartTime>>,
     gold_dust |-> 3 * ENERGY_SHOP_PRICE]

InitEnergySpec ==
    /\ MainInit
    /\ StoreIdle
    /\ CalcIdle
    /\ FightIdle /\ PurseIdle /\ WheelIdle
    /\ \E p0 \in {NewProfile, BuyerProfile} :
          ledger = [at |-> "on", now |-> StartTime, moves |-> 0, prof |-> p0,
                    calls |-> 0,
                    last |-> [op |-> "none", ok |-> TRUE, arg |-> 0],
                    claim_times |-> << >>,
                    buy_times |-> p0.raid_energy_buy_log]

\* One energy call returns; what it was and whether it went through is kept.
Called(op, arg, ok, prof) ==
    /\ ledger.calls < MaxCalls
    /\ ledger' = [ledger EXCEPT
                    !.prof = prof,
                    !.calls = @ + 1,
                    !.last = [op |-> op, ok |-> ok, arg |-> arg],
                    !.claim_times = IF op = "claim" /\ ok THEN Append(@, ledger.now) ELSE @,
                    !.buy_times = IF op = "buy" /\ ok THEN Append(@, ledger.now) ELSE @]
    /\ UNCHANGED <<mainVars, store, calc, fight, purse, wheel>>

\* /energy status: _get_energy and _clean_buy_log.
EnergyStatus ==
    Called("get", 0, TRUE,
           [Materialize(ledger.prof, ledger.now) EXCEPT
              !.raid_energy_buy_log = TrimmedBuyLog(@, ledger.now)])

\* boss_attack line 421: _spend_energy(uid, cost).
EnergySpend(cost) ==
    Called("spend", cost, SpendEnergyAt(ledger.prof, cost, ledger.now).ok,
           SpendEnergyAt(ledger.prof, cost, ledger.now).prof)

\* boss_attack line 453: _add_energy(uid, 1).
EnergyRefund ==
    Called("add", 1, TRUE, AddEnergyAt(ledger.prof, 1, ledger.now))

\* /energy claim
EnergyClaim ==
    Called("claim", 0, ClaimDailyAt(ledger.prof, ledger.now).ok,
           ClaimDailyAt(ledger.prof, ledger.now).prof)

\* /energy buy
EnergyBuy(amount) ==
    Called("buy", amount, EnergyBuyAt(ledger.prof, amount, ledger.now).ok,
           EnergyBuyAt(ledger.prof, amount, ledger.now).prof)

\* The wall clock moves on.
ClockAdvance(d) ==
    /\ ledger.at = "on"
    /\ ledger.moves < MaxAdvances
    /\ ledger' = [ledger EXCEPT !.now = @ + d, !.moves = @ + 1]
    /\ UNCHANGED <<mainVars, store, calc, fight, purse, wheel>>

EnergyStep ==
    \/ EnergyStatus
    \/ \E cost \in SpendCosts : EnergySpend(cost)
    \/ EnergyRefund
    \/ EnergyClaim
    \/ \E amount \in BuyAmounts : EnergyBuy(amount)
    \/ \E d \in Advances : ClockAdvance(d)

SpecEnergy == InitEnergySpec /\ [][EnergyStep]_vars

(***************************************************************************)
(* damage.compute_damage on its own: one boss, one attacker, one roll      *)
(***************************************************************************)
\* max_hp of the bosses rolled against, and attackers with or without faction.
DamageMaxHps == {150, 400, 1000, 1900}
DamageFactions == {"verdant", "thorned", ""}

\* The value of base when line 195 is reached, set by hand: 50 with the
\* weakness bonus of 20% on it.
ForcedBases == {60}

InitDamage ==
    /\ MainInit
    /\ StoreIdle
    /\ LedgerIdle
    /\ FightIdle /\ PurseIdle /\ WheelIdle
    /\ \E mx \in DamageMaxHps, w \in {"verdant", "thorned"}, g \in BOOLEAN,
          f \in DamageFactions :
          calc = [at |-> "roll",
                  b |-> [BlankBoss EXCEPT !.hp = mx, !.max_hp = mx,
                                          !.weakness = w, !.guard_break = g],
                  faction |-> f, jitter |-> 0, forced |-> 0, dmg |-> 0]

\* dmg, effects = compute_damage(b, member)
RollDamage(jitter, gbLive) ==
    /\ calc.at = "roll"
    /\ calc' = [calc EXCEPT
                  !.at = "done",
                  !.jitter = jitter,
                  !.dmg = ComputeDamage(calc.b, calc.faction, jitter, gbLive)]
    /\ UNCHANGED <<mainVars, store, ledger, fight, purse, wheel>>

\* Lines 195-197 entered with a given base.
ClampForced(base) ==
    /\ calc.at = "roll"
    /\ calc' = [calc EXCEPT
                  !.at = "done",
                  !.forced = base,
                  !.dmg = ClampHit(base, calc.b.max_hp)]
    /\ UNCHANGED <<mainVars, store, ledger, fight, purse, wheel>>

DamageStep ==
    \/ \E jitter \in JitterPcts, gbLive \in BOOLEAN : RollDamage(jitter, gbLive)
    \/ \E base \in ForcedBases : ClampForced(base)

SpecDamage == InitDamage /\ [][DamageStep]_vars

(***************************************************************************)
(* One fight with the clock: shields, Guard Break, the reset after a kill  *)
(***************************************************************************)
GUARD_BREAK_SEC == 30
SHIELD_DURATION_SEC == 120

FightStart == 1000
FightAdvances == {20, 100}
FightMaxHps == {150, 1000}

\* Timestamps are seconds; 0 stands for "no timestamp stored".
\* damage._buff_active
BuffActive(until, now) == until # 0 /\ now < until

\* damage._set_buff
SetBuff(now, seconds) == now + seconds

\* shields._shield_active, the expiry test: exp and _now() > exp
ShieldExpired(expires, now) == expires # 0 /\ now > expires

InitFight ==
    /\ MainInit
    /\ StoreIdle /\ LedgerIdle /\ CalcIdle /\ PurseIdle /\ WheelIdle
    /\ \E mx \in FightMaxHps :
          fight = [at |-> "on", now |-> FightStart,
                   b |-> SpawnedBoss(BlankBoss, mx),
                   expires |-> 0, gb_until |-> 0,
                   hits |-> 0, moves |-> 0, ops |-> 0,
                   last |-> [op |-> "none", broken |-> FALSE,
                             shield |-> NoShield, dmg_to_boss |-> 0,
                             credit |-> 0],
                   pending |-> {}]

\* What an operation other than an attack leaves in fight.last.
Did(op) ==
    [op |-> op, broken |-> FALSE, shield |-> NoShield, dmg_to_boss |-> 0,
     credit |-> 0]

\* The lock body of boss_attack at time fight.now, on a live boss.
FightOutcome(p, jitter) ==
    AttackMutate(fight.b, p, jitter, BuffActive(fight.gb_until, fight.now),
                 ShieldExpired(fight.expires, fight.now))

\* BossCog.boss_attack, from the lock to the kill check; a kill hands the
\* saved dict to _handle_kill.
FightAttack(p, jitter) ==
    /\ fight.at = "on"
    /\ fight.hits < MaxHits
    /\ fight.b.hp > 0
    /\ fight' = [fight EXCEPT
          !.b = FightOutcome(p, jitter).b,
          !.expires = IF FightOutcome(p, jitter).b.shield.type = "none"
                      THEN 0 ELSE @,
          !.gb_until = IF FightOutcome(p, jitter).broken
                       THEN SetBuff(fight.now, GUARD_BREAK_SEC) ELSE @,
          !.hits = @ + 1,
          !.last = [op |-> "attack",
                    broken |-> FightOutcome(p, jitter).broken,
                    shield |-> ShieldActive(fight.b,
                                  ShieldExpired(fight.expires, fight.now)).shield,
                    dmg_to_boss |-> FightOutcome(p, jitter).dmg_to_boss,
                    credit |-> FightOutcome(p, jitter).credit],
          !.pending =
              IF FightOutcome(p, jitter).b.hp <= 0
              THEN @ \cup {[b |-> FightOutcome(p, jitter).b,
                            gb_until |->
                                IF FightOutcome(p, jitter).broken
                                THEN SetBuff(fight.now, GUARD_BREAK_SEC)
                                ELSE fight.gb_until]}
              ELSE @]
    /\ UNCHANGED <<mainVars, store, ledger, calc, purse, wheel>>

\* BossCog._handle_kill, the reset write of the dict the attack saved.
FightKillReset ==
    /\ fight.at = "on"
    /\ \E s \in fight.pending :
          fight' = [fight EXCEPT
                      !.b = KillResetDoc(s.b),
                      !.expires = 0,
                      !.gb_until = s.gb_until,
                      !.last = Did("reset"),
                      !.pending = @ \ {s}]
    /\ UNCHANGED <<mainVars, store, ledger, calc, purse, wheel>>

\* BossCog.boss_spawn
FightSpawn(hp) ==
    /\ fight.at = "on"
    /\ fight.ops < MaxFightOps
    /\ fight' = [fight EXCEPT
                   !.b = SpawnedBoss(fight.b, hp),
                   !.expires = 0,
                   !.ops = @ + 1,
                   !.last = Did("spawn")]
    /\ UNCHANGED <<mainVars, store, ledger, calc, purse, wheel>>

\* BossCog.boss_add_shield (no percent argument)
FightAddShield(kind) ==
    /\ fight.at = "on"
    /\ fight.ops < MaxFightOps
    /\ fight' = [fight EXCEPT
                   !.b = SpawnShield(fight.b, kind),
                   !.expires = IF SpawnShield(fight.b, kind).shield.type = "none"
                               THEN 0 ELSE fight.now + SHIELD_DURATION_SEC,
                   !.ops = @ + 1,
                   !.last = Did("add_shield")]
    /\ UNCHANGED <<mainVars, store, ledger, calc, purse, wheel>>

\* BossScheduler.shield_cleaner, a tick that finds a shield to clear.
FightSweep ==
    /\ fight.at = "on"
    /\ fight.b.shield.type # "none"
    /\ ~ (/\ ShieldActive(fight.b, ShieldExpired(fight.expires, fight.now)).shield.type # "none"
          /\ fight.expires # 0
          /\ fight.now < fight.expires)
    /\ fight' = [fight EXCEPT
                   !.b = [fight.b EXCEPT !.shield = NoShield],
                   !.expires = 0,
                   !.last = Did("sweep")]
    /\ UNCHANGED <<mainVars, store, ledger, calc, purse, wheel>>

\* Time passes.
FightTick(d) ==
    /\ fight.at = "on"
    /\ fight.moves < MaxFightMoves
    /\ fight' = [fight EXCEPT !.now = @ + d, !.moves = @ + 1,
                              !.last = Did("tick")]
    /\ UNCHANGED <<mainVars, store, ledger, calc, purse, wheel>>

FightStep ==
    \/ \E p \in Players, jitter \in JitterPcts : FightAttack(p, jitter)
    \/ FightKillReset
    \/ \E hp \in SpawnHps : FightSpawn(hp)
    \/ \E kind \in ShieldKinds : FightAddShield(kind)
    \/ FightSweep
    \/ \E d \in FightAdvances : FightTick(d)

SpecFight == InitFight /\ [][FightStep]_vars

(***************************************************************************)
(* The payout of _handle_kill on its own                                   *)
(***************************************************************************)
PurseIds == {"u1", "u2", "u3"}
PurseDmgs == {100, 300, 600}

\* The tallies a defeated boss can carry: one entry per participant.
PurseTallies ==
    UNION {[S -> PurseDmgs] : S \in (SUBSET PurseIds) \ {{}}}

\* Line 585: the pool.
RewardPool(tally) ==
    LET participants == Max(1, Cardinality(DOMAIN tally))
    IN  Max(REWARD_PER_PLAYER * participants, REWARD_MIN * participants)

\* int(pool * share) before the clamp of line 592.
RewardShare(tally, p) ==
    (RewardPool(tally) * tally[p])
        \div (IF TallyTotal(tally) = 0 THEN 1 ELSE TallyTotal(tally))

InitPurse ==
    /\ MainInit
    /\ StoreIdle /\ LedgerIdle /\ CalcIdle /\ FightIdle /\ WheelIdle
    /\ \E ty \in PurseTallies :
          purse = [at |-> "killed", tally |-> ty, pool |-> 0,
                   rewards |-> EmptyTally]

\* Lines 582-598: the loop that credits every participant.
PursePay ==
    /\ purse.at = "killed"
    /\ purse' = [purse EXCEPT
                   !.at = "paid",
                   !.pool = RewardPool(purse.tally),
                   !.rewards = [p \in DOMAIN purse.tally |->
                                   Reward(purse.tally, p)]]
    /\ UNCHANGED <<mainVars, store, ledger, calc, fight, wheel>>

PurseStep == PursePay

SpecPurse == InitPurse /\ [][PurseStep]_vars

(***************************************************************************)
(* The background weakness rotations on their own                          *)
(***************************************************************************)
Factions == {"gilded", "thorned", "verdant", "mistveil"}

\* settings.WEAKNESS_ORDER, used by BossScheduler.rotate_weakness
WEAKNESS_ORDER == <<"verdant", "thorned", "gilded", "mistveil">>

\* rotator.ORDER, used by WeaknessRotator
ORDER == <<"gilded", "thorned", "verdant", "mistveil">>

ROTATE_MINUTES == 2

\* list.index: the first position of x in order (x occurs in it).
IndexIn(order, x) == CHOOSE i \in 1..Len(order) : order[i] = x /\ \A j \in 1..(i - 1) : order[j] # x

InOrder(order, x) == \E i \in 1..Len(order) : order[i] = x

\* order[(i + 1) % len(order)]
SuccessorIn(order, x) == order[(IndexIn(order, x) % Len(order)) + 1]

\* rotator._next_weakness
NextWeakness(cur) == IF InOrder(ORDER, cur) THEN SuccessorIn(ORDER, cur) ELSE ORDER[1]

\* BossScheduler.rotate_weakness, lines 42-47: the values "new" can take
\* (random.choice when the current weakness is not in the list).
SchedulerNext(cur) ==
    IF InOrder(WEAKNESS_ORDER, cur) THEN {SuccessorIn(WEAKNESS_ORDER, cur)}
    ELSE Factions

InitWheel ==
    /\ MainInit
    /\ StoreIdle /\ LedgerIdle /\ CalcIdle /\ FightIdle /\ PurseIdle
    /\ \E w \in Factions :
          wheel = [at |-> "on", weakness |-> w, tick |-> 0, origin |-> w,
                   seen |-> << >>]

\* BossScheduler.rotate_weakness on a live boss
SchedulerRotate ==
    /\ wheel.at = "on"
    /\ Len(wheel.seen) < MaxRotations
    /\ \E new \in SchedulerNext(wheel.weakness) :
          wheel' = [wheel EXCEPT !.weakness = new, !.seen = Append(@, new)]
    /\ UNCHANGED <<mainVars, store, ledger, calc, fight, purse>>

\* WeaknessRotator.rotate_loop on a live boss, rotation enabled, the default
\* interval: one tick of the one-minute loop.
RotateLoop ==
    /\ wheel.at = "on"
    /\ Len(wheel.seen) < MaxRotations
    /\ IF wheel.tick + 1 < ROTATE_MINUTES
       THEN wheel' = [wheel EXCEPT !.tick = (wheel.tick + 1) % ROTATE_MINUTES]
       ELSE wheel' = [wheel EXCEPT
                        !.weakness = NextWeakness(wheel.weakness),
                        !.tick = 0,
                        !.seen = Append(@, NextWeakness(wheel.weakness))]
    /\ UNCHANGED <<mainVars, store, ledger, calc, fight, purse>>

WheelStep == SchedulerRotate \/ RotateLoop

SpecWheel == InitWheel /\ [][WheelStep]_vars

(***************************************************************************)
(* Attacks next to use_preset and the idle heal: the boss phase            *)
(***************************************************************************)
PresetHps == {150}             \* hp arguments of /boss_admin use_preset

\* The document /boss_admin use_preset leaves on disk; p2: the preset's
\* phase_images holds a phase-2 key.  The preset names no weakness.
PresetBoss(b, hp, p2) == [SpawnedBoss(b, hp) EXCEPT !.has_p2 = p2]

\* BossCog.boss_use_preset
BossUsePreset(hp, p2) == AdminSave(PresetBoss(LoadBoss(disk), hp, p2))

\* The boss of the start was spawned from a preset with or without a
\* phase-2 image.
InitPhase ==
    /\ disk \in {PresetBoss(BlankBoss, InitHp, p2) : p2 \in BOOLEAN}
    /\ lock = NoTask
    /\ pc = [t \in Tasks |-> "idle"]
    /\ user = [t \in Tasks |-> NoPlayer]
    /\ loc = [t \in Tasks |-> BlankBoss]
    /\ hit = [t \in Tasks |-> 0]
    /\ credit = [t \in Tasks |-> 0]
    /\ dealt = 0
    /\ credited = [p \in Players |-> 0]
    /\ out = [t \in Tasks |-> "none"]
    /\ killer = [t \in Tasks |-> FALSE]
    /\ fresh = [t \in Tasks |-> FALSE]
    /\ saved = TRUE
    /\ energy = [p \in Players |-> InitEnergy(p)]
    /\ claimed = [p \in Players |-> FALSE]
    /\ gold = [p \in Players |-> 0]
    /\ gains = [p \in Players |-> FALSE]
    /\ start = [hp |-> InitHp, tally |-> EmptyTally, energy |-> energy]
    /\ ops = 0
    /\ tops = 0
    /\ HarnessIdle

PhaseAdminStep ==
    \/ \E hp \in PresetHps, p2 \in BOOLEAN : BossUsePreset(hp, p2)
    \/ \E idle \in BOOLEAN : BossIdleRegen(idle)

SpecPhase == InitPhase /\ [][AttackOkStep \/ PhaseAdminStep]_vars

(***************************************************************************)
(* shields._apply_shield on its own: one hit on one active shield          *)
(***************************************************************************)
ShieldHps == {10, 50, 80}              \* hp left in the shield that is hit
ShieldRaws == {100, 101, 135}          \* dmg as compute_damage hands it over
ShieldFactions == {"gilded", "thorned", "verdant", "mistveil", ""}

InitShield ==
    /\ MainInit
    /\ StoreIdle /\ LedgerIdle /\ FightIdle /\ PurseIdle /\ WheelIdle
    /\ \E kind \in ShieldKinds, hp \in ShieldHps, raw \in ShieldRaws,
          f \in ShieldFactions, crit \in BOOLEAN :
          calc = [at |-> "shielded",
                  b |-> [BlankBoss EXCEPT
                            !.hp = 1000, !.max_hp = 1000,
                            !.shield = [type |-> kind, hp |-> hp,
                                        max_hp |-> 80]],
                  raw |-> raw, faction |-> f, crit |-> crit,
                  out |-> [b |-> BlankBoss, dmg_to_boss |-> 0,
                           absorbed |-> 0, broken |-> FALSE]]

\* out = _apply_shield(b, dmg_to_boss, _faction_of(member), effects)
ApplyShieldCall ==
    /\ calc.at = "shielded"
    /\ calc' = [calc EXCEPT
                  !.at = "hit",
                  !.out = ApplyShield(calc.b, calc.raw, calc.faction, calc.crit)]
    /\ UNCHANGED <<mainVars, store, ledger, fight, purse, wheel>>

ShieldStep == ApplyShieldCall

SpecShield == InitShield /\ [][ShieldStep]_vars

(***************************************************************************)
(* The idle heal with the clock: attacks stamp the log, the tick reads it  *)
(***************************************************************************)
IDLE_HEAL_MINUTES == 30

HealAdvances == {600, 1200}            \* seconds between two events
\* <<max_hp, hp>> of the boss at the start: full, nearly full, small.
HealBosses == {<<150, 150>>, <<150, 148>>, <<20, 7>>}

\* Line 64: cutoff = _now() - timedelta(minutes=IDLE_HEAL_MINUTES)
HealCutoff(now) == now - IDLE_HEAL_MINUTES * 60

\* Line 65: the entries of the log stamped after the cutoff.
RecentActions(stamps, now) ==
    {i \in DOMAIN stamps : stamps[i] > HealCutoff(now)}

\* The lock body of boss_idle_regen (lines 61-71): the document it leaves.
IdleRegenDoc(b, stamps, now) ==
    IF b.hp <= 0 THEN b
    ELSE IF RecentActions(stamps, now) # {} THEN b
    ELSE IdleHealDoc(b)

\* Entries the log holds at the start: none, or a log at or just under the
\* cap, written one per second up to the start by hits a shield absorbed.
LogFills == {0, 23, 24, 25}
FilledLog(n) == [i \in 1..n |-> [user_id |-> "p1", faction |-> "verdant", dmg |-> 0]]
FilledStamps(n) == [i \in 1..n |-> FightStart - n + i - 1]

\* stamps: the "ts" of each entry of b.last_actions, in the log's order.
InitHeal ==
    /\ MainInit
    /\ StoreIdle /\ LedgerIdle /\ CalcIdle /\ PurseIdle /\ WheelIdle
    /\ \E mh \in HealBosses, n \in LogFills :
          fight = [at |-> "heal", now |-> FightStart,
                   b |-> [BlankBoss EXCEPT !.max_hp = mh[1], !.hp = mh[2],
                                           !.last_actions = FilledLog(n)],
                   stamps |-> FilledStamps(n), hits |-> 0, moves |-> 0,
                   ticks |-> 0, op |-> "none", who |-> NoPlayer]

\* BossCog.boss_attack on a live boss at fight.now; every entry it appends
\* to the log carries "ts": _now().
HealAttack(p, jitter) ==
    /\ fight.at = "heal"
    /\ fight.hits < MaxHits
    /\ fight.b.hp > 0
    /\ LET r == AttackMutate(fight.b, p, jitter, FALSE, FALSE)
           \* the phase entry is appended and the log cut, then the attack's
           shifted == IF r.phase_switched
                      THEN LastN(Append(fight.stamps, fight.now), LogCap)
                      ELSE fight.stamps
       IN  fight' = [fight EXCEPT
                       !.b = r.b,
                       !.stamps = LastN(Append(shifted, fight.now), LogCap),
                       !.hits = @ + 1,
                       !.op = "attack",
                       !.who = p]
    /\ UNCHANGED <<mainVars, store, ledger, calc, purse, wheel>>

\* BossScheduler.boss_idle_regen, one tick of the loop.
HealTick ==
    /\ fight.at = "heal"
    /\ fight.ticks < MaxHealTicks
    /\ fight' = [fight EXCEPT
                   !.b = IdleRegenDoc(fight.b, fight.stamps, fight.now),
                   !.ticks = @ + 1,
                   !.op = "heal"]
    /\ UNCHANGED <<mainVars, store, ledger, calc, purse, wheel>>

\* Time passes.
HealAdvance(d) ==
    /\ fight.at = "heal"
    /\ fight.moves < MaxFightMoves
    /\ fight' = [fight EXCEPT !.now = @ + d, !.moves = @ + 1, !.op = "wait"]
    /\ UNCHANGED <<mainVars, store, ledger, calc, purse, wheel>>

HealStep ==
    \/ \E p \in Players, jitter \in JitterPcts : HealAttack(p, jitter)
    \/ HealTick
    \/ \E d \in HealAdvances : HealAdvance(d)

SpecHeal == InitHeal /\ [][HealStep]_vars

(***************************************************************************)
(* The same fight over a boss.json whose shield carries no "expires"       *)
(***************************************************************************)
\* _shield_active takes a missing or unreadable "expires" as "no expiry":
\* the stored shield of the start has one or has none.
InitSweep ==
    /\ MainInit
    /\ StoreIdle /\ LedgerIdle /\ CalcIdle /\ PurseIdle /\ WheelIdle
    /\ \E mx \in FightMaxHps, kind \in ShieldKinds,
          exp \in {0, FightStart + SHIELD_DURATION_SEC} :
          fight = [at |-> "on", now |-> FightStart,
                   b |-> SpawnShield([BlankBoss EXCEPT !.hp = mx,
                                                       !.max_hp = mx], kind),
                   expires |-> exp, gb_until |-> 0,
                   hits |-> 0, moves |-> 0, ops |-> 0,
                   last |-> Did("none"),
                   pending |-> {}]

SpecSweep == InitSweep /\ [][FightStep]_vars

(***************************************************************************)
(* The two rotation loops on the clock, with the rotate config             *)
(***************************************************************************)
RotateIntervals == {1, 3}      \* minutes arguments of /boss_rotate set_minutes

\* rotator._get_rotate_config on a document without a "rotate" entry;
\* last_rot is the minute of the last background rotation, -1 before any.
InitRotate ==
    /\ MainInit
    /\ StoreIdle /\ LedgerIdle /\ CalcIdle /\ FightIdle /\ PurseIdle
    /\ \E w \in Factions, first \in {0, 1} :
          wheel = [at |-> "timed", minute |-> 0, due |-> first,
                   weakness |-> w, enabled |-> TRUE,
                   minutes |-> ROTATE_MINUTES, tick |-> 0,
                   last_rot |-> -1, op |-> "none", ops |-> 0]

\* WeaknessRotator.rotate_loop on a live boss: the next minute begins and
\* the loop body runs (the scheduler's tick of this minute has run).
RotateLoopTick ==
    /\ wheel.at = "timed"
    /\ wheel.minute < MaxMinutes
    /\ wheel.minute < wheel.due
    /\ IF wheel.tick + 1 < wheel.minutes \/ ~wheel.enabled
       THEN wheel' = [wheel EXCEPT
                        !.minute = @ + 1,
                        !.tick = (wheel.tick + 1) % Max(1, wheel.minutes),
                        !.op = "loop"]
       ELSE wheel' = [wheel EXCEPT
                        !.minute = @ + 1,
                        !.weakness = NextWeakness(@),
                        !.tick = 0,
                        !.last_rot = wheel.minute + 1,
                        !.op = "loop"]
    /\ UNCHANGED <<mainVars, store, ledger, calc, fight, purse>>

\* BossScheduler.rotate_weakness on a live boss: the tick that is due in
\* this minute; the next one is due ROTATE_MINUTES later.
SchedulerTick ==
    /\ wheel.at = "timed"
    /\ wheel.minute = wheel.due
    /\ wheel' \in {[wheel EXCEPT
                      !.weakness = new,
                      !.due = wheel.minute + ROTATE_MINUTES,
                      !.last_rot = wheel.minute,
                      !.op = "scheduler"] :
                   new \in SchedulerNext(wheel.weakness)}
    /\ UNCHANGED <<mainVars, store, ledger, calc, fight, purse>>

\* WeaknessRotator.rotate_toggle
RotateToggle(enabled) ==
    /\ wheel.at = "timed"
    /\ wheel.ops < MaxRotateOps
    /\ wheel' = [wheel EXCEPT !.enabled = enabled, !.ops = @ + 1,
                              !.op = "toggle"]
    /\ UNCHANGED <<mainVars, store, ledger, calc, fight, purse>>

\* WeaknessRotator.rotate_set_minutes
RotateSetMinutes(minutes) ==
    /\ wheel.at = "timed"
    /\ wheel.ops < MaxRotateOps
    /\ wheel' = [wheel EXCEPT !.minutes = Max(1, minutes), !.tick = 0,
                              !.ops = @ + 1, !.op = "set_minutes"]
    /\ UNCHANGED <<mainVars, store, ledger, calc, fight, purse>>

\* WeaknessRotator.rotate_now on a live boss
RotateNow ==
    /\ wheel.at = "timed"
    /\ wheel.ops < MaxRotateOps
    /\ wheel' = [wheel EXCEPT !.weakness = NextWeakness(@), !.tick = 0,
                              !.ops = @ + 1, !.op = "now"]
    /\ UNCHANGED <<mainVars, store, ledger, calc, fight, purse>>

\* WeaknessRotator.rotate_set
RotateSet(slug) ==
    /\ wheel.at = "timed"
    /\ wheel.ops < MaxRotateOps
    /\ wheel' = [wheel EXCEPT !.weakness = slug, !.ops = @ + 1, !.op = "set"]
    /\ UNCHANGED <<mainVars, store, ledger, calc, fight, purse>>

RotateStep ==
    \/ RotateLoopTick
    \/ SchedulerTick
    \/ \E enabled \in BOOLEAN : RotateToggle(enabled)
    \/ \E minutes \in RotateIntervals : RotateSetMinutes(minutes)
    \/ RotateNow
    \/ \E slug \in Factions : RotateSet(slug)

SpecRotate == InitRotate /\ [][RotateStep]_vars

(***************************************************************************)
(* energy._materialize on its own: one call on one stale profile           *)
(***************************************************************************)
\* Seconds between the anchor raid_energy_ts and the call: none, 19, 20, 65
\* and 65.5 minutes, 100 and 200 minutes, 25 hours.
StaleSecs == {0, 1140, 1200, 3900, 3930, 6000, 12000, 90000}
RegenAnchors == {StartTime, StartTime + 7}

InitRegen ==
    /\ MainInit
    /\ StoreIdle /\ CalcIdle /\ FightIdle /\ PurseIdle /\ WheelIdle
    /\ \E cur \in 0..ENERGY_MAX, ts \in RegenAnchors, stale \in StaleSecs :
          ledger = [at |-> "stale", now |-> ts + stale,
                    before |-> [NewProfile EXCEPT !.raid_energy = cur,
                                                  !.raid_energy_ts = ts],
                    prof |-> [NewProfile EXCEPT !.raid_energy = cur,
                                                !.raid_energy_ts = ts]]

\* _materialize(uid) at ledger.now
MaterializeCall ==
    /\ ledger.at = "stale"
    /\ ledger' = [ledger EXCEPT !.at = "fresh",
                                !.prof = Materialize(ledger.prof, ledger.now)]
    /\ UNCHANGED <<mainVars, store, calc, fight, purse, wheel>>

RegenStep == MaterializeCall

SpecRegen == InitRegen /\ [][RegenStep]_vars

(***************************************************************************)
(* Vocabulary of the properties                                            *)
(***************************************************************************)
\* save_boss at line 543 has returned for this invocation.
Committed(t) ==
    \/ pc[t] \in {"reply", "payout", "killreset"}
    \/ out[t] \in {"hit", "killed", "replyfail"}

\* The invocation holds boss_state_lock (it is inside lines 449-544).
InLock(t) == pc[t] \in {"saving", "toolate"}

\* The invocation took 1 energy at line 421 and has not reached an outcome.
Pending(t) == pc[t] \in {"wantlock", "saving"}

CommittedBy(p) == {t \in Tasks : user[t] = p /\ Committed(t)}
PendingBy(p) == {t \in Tasks : user[t] = p /\ Pending(t)}
FailedBy(p) == {t \in Tasks : user[t] = p /\ out[t] = "savefail"}

\* The persisted document is in the reset state of a defeated boss.
DiskReset ==
    /\ disk.hp = 0
    /\ disk.tally = EmptyTally
    /\ disk.last_actions = << >>
    /\ disk.shield = NoShield

(***************************************************************************)
(* Properties                                                              *)
(***************************************************************************)
\* C1.  Concurrent attacks on a live boss, nothing else running: the
\* persisted hp is max(0, initial hp - sum of the damage of the committed
\* attacks), the persisted tally of each player is the sum of the credits of
\* their committed attacks, at most one attack is inside the lock, and the
\* attack inside the lock has computed its hit on the document the previous
\* one saved.
C1_NoLostUpdate ==
    /\ disk.hp = Max(0, start.hp - dealt)
    /\ \A p \in Players : TallyGet(disk.tally, p) = credited[p]
    /\ Cardinality({t \in Tasks : InLock(t)}) <= 1
    /\ \A t \in Tasks : pc[t] = "saving" => loc[t].hp = disk.hp - hit[t]

\* Two attacks committed, the second one the kill, a third one arrived before
\* the kill and locked after it.
C1_Witness ==
    /\ disk.hp = 0
    /\ dealt = start.hp
    /\ Cardinality({t \in Tasks : Committed(t)}) = 2
    /\ \E t \in Tasks : out[t] = "toolate"

\* C2.  Every document save_boss writes was loaded by the writing task inside
\* the lock hold in which it is written.
C2_Counterexample == saved = TRUE

\* C3.  The attack whose committed hit took hp to 0 runs _handle_kill, and
\* it is the only invocation that does.
C3_Counterexample ==
    \A t \in Tasks :
        (killer[t] /\ pc[t] = "done") =>
            /\ out[t] = "killed"
            /\ \A u \in Tasks \ {t} : out[u] # "killed"

\* C4.  However often _handle_kill runs for one kill, no participant is paid
\* more than one reward and nobody else is paid.
C4_Counterexample ==
    \A p \in Players :
        gold[p] <= (IF p \in DOMAIN start.tally THEN Reward(start.tally, p) ELSE 0)

\* C5.  Gold is credited only after the reset document (hp 0, empty tally,
\* empty log, no shield) has been persisted.
C5_Counterexample == (\E p \in Players : gold[p] > 0) => DiskReset

\* C6.  When the attack that committed the killing blow has ended, every
\* participant of the persisted tally has been paid.
C6_Counterexample ==
    \A t \in Tasks :
        (killer[t] /\ pc[t] = "done") =>
            \A p \in DOMAIN disk.tally : gold[p] > 0

\* C7.  Every unit of energy taken by an attack is either committed, still on
\* its way to the commit, or back in the player's ledger.
C7_Counterexample ==
    \A p \in Players :
        energy[p] + Cardinality(CommittedBy(p)) + Cardinality(PendingBy(p))
            = start.energy[p]

\* The step in which an attack that spent its energy takes the lock and
\* finds the boss dead.
FindsBossDead(t) == pc[t] = "wantlock" /\ pc'[t] = "toolate"

C9_EnergyBudget ==
    \A p \in Players :
        ~gains[p] =>
            /\ Cardinality(CommittedBy(p)) <= start.energy[p]
            /\ energy[p] = start.energy[p]
                   - Cardinality(CommittedBy(p) \cup PendingBy(p) \cup FailedBy(p))

\* A player has committed as many attacks as they held energy and a further
\* press was refused for lack of energy.
C9_Witness ==
    \E p \in Players :
        /\ ~gains[p]
        /\ Cardinality(CommittedBy(p)) = start.energy[p]
        /\ \E t \in Tasks : user[t] = p /\ out[t] = "noenergy"

\* C10.  The persisted document always has 0 <= hp <= max_hp.
C10_HpInRange == 0 <= disk.hp /\ disk.hp <= disk.max_hp

\* set_hp has raised max_hp and an attack has landed on the edited boss.
C10_Witness ==
    /\ disk.max_hp > start.hp
    /\ 0 < disk.hp /\ disk.hp < disk.max_hp
    /\ dealt > 0

\* boss_attack delivers a reply to the player in this step: the "too late"
\* followup of lines 457-461, or the public reply of line 562.
SendsReply(t) ==
    \/ pc[t] = "toolate" /\ pc'[t] = "done"
    \/ pc[t] = "reply" /\ pc'[t] # "reply" /\ out'[t] # "replyfail"

\* C11.  No reply to the user is sent while boss_state_lock is held: in
\* every step in which an attack delivers a reply, that attack does not hold
\* the lock.  Violated by the too-late branch, whose followup is awaited
\* inside "async with boss_state_lock".
C11_Counterexample == [][\A t \in Tasks : SendsReply(t) => lock # t]_vars

\* save_boss returns in this step: an attack's save (line 543), the reset of
\* _handle_kill (line 639), or an admin command or scheduler tick.
SaveReturns ==
    \/ \E t \in Tasks : pc[t] = "saving" /\ pc'[t] = "reply"
    \/ \E t \in Tasks : pc[t] = "killreset" /\ pc'[t] = "done"
    \/ ops' # ops

\* save_boss raises inside this attack's lock hold in this step.
SaveRaises(t) == pc[t] = "saving" /\ out'[t] = "savefail"

\* C12.  When persisting fails inside a locked mutation, the mutated dict is
\* dropped, boss_state_lock is released and data/boss.json still holds what
\* the last save_boss that returned wrote: the document changes in no step
\* other than one in which save_boss returns.
C12_FailedSaveKeepsDisk ==
    [][/\ ~SaveReturns => disk' = disk
       /\ \A t \in Tasks :
            SaveRaises(t) => /\ disk' = disk
                             /\ lock' = NoTask
                             /\ loc'[t] = BlankBoss
                             /\ hit'[t] = 0 /\ credit'[t] = 0]_vars

\* An attack's save failed after another attack had committed its hit, and
\* the document still carries exactly the committed damage.
C12_Witness ==
    \E t, u \in Tasks :
        /\ out[t] = "savefail"
        /\ Committed(u)
        /\ dealt > 0
        /\ disk.hp = Max(0, InitHp - dealt)
        /\ lock = NoTask

\* C13.  Whatever statement of save_boss the process dies at (or raises
\* at), data/boss.json is never cut short: it holds the whole document it
\* held before the call, or the whole document the call was writing.
C13_AtomicSave ==
    store.at # "off" =>
        /\ store.files[BOSS_FILE].kind # "torn"
        /\ \/ store.files[BOSS_FILE] = store.prev
           \/ store.files[BOSS_FILE] = Json(store.out)

\* The process died in the middle of a write_text of a second save: a cut
\* file lies next to data/boss.json, which holds the first save's document.
C13_Witness ==
    /\ store.at = "idle"
    /\ store.saves > 1
    /\ \E f \in FileNames : store.files[f].kind = "torn"
    /\ store.files[BOSS_FILE].kind = "json"
    /\ store.files[BOSS_FILE] = store.prev
    /\ store.files[BOSS_FILE] # Json(store.out)

\* C14.  Over any sequence of load_boss and save_boss calls, saves of dicts
\* without a "catalog" key included, the catalog read back from
\* data/boss.json is the catalog that was there at the start.
C14_CatalogKept ==
    store.at # "off" => CatalogOf(store.files[BOSS_FILE]) = store.catalog0

\* A dict built without load_boss, so without a "catalog" key, was saved
\* over a document that carries the presets, and the rename went through.
C14_Witness ==
    /\ store.at = "replaced"
    /\ store.catalog0 = "presets"
    /\ store.prev.kind = "json"
    /\ store.out.hp # store.prev.data.hp
    /\ store.snap.catalog = "missing"
    /\ store.out.catalog = "presets"
    /\ store.files[BOSS_FILE] = Json(store.out)

\* C15.  For a player below MAX whose anchor is set, every energy operation
\* moves raid_energy_ts by a whole number of regen ticks only.  Violated:
\* _spend_energy and _add_energy write raid_energy_ts = _now().
C15_Counterexample ==
    [][(/\ ledger.at = "on"
        /\ ledger.prof.raid_energy_ts > 0
        /\ GetEnergy(ledger.prof, ledger.now) < ENERGY_MAX
        /\ ledger'.prof.raid_energy < ENERGY_MAX)
       => (ledger'.prof.raid_energy_ts - ledger.prof.raid_energy_ts)
              % (ENERGY_REGEN_MINUTES * 60) = 0]_vars

\* C16.  After any sequence of materialize, spend, refund, daily-claim and
\* purchase calls the stored raid_energy lies between 0 and ENERGY_MAX.
C16_EnergyInRange ==
    ledger.at = "on" =>
        /\ ledger.prof.raid_energy >= 0
        /\ ledger.prof.raid_energy <= ENERGY_MAX

\* A purchase of 3 with 4 energy in hand went through: 1 was bought and
\* paid for, and the profile stands at ENERGY_MAX.
C16_Witness ==
    /\ ledger.at = "on"
    /\ ledger.last = [op |-> "buy", ok |-> TRUE, arg |-> 3]
    /\ ledger.prof.raid_energy = ENERGY_MAX
    /\ ledger.prof.gold_dust = NewProfile.gold_dust - ENERGY_SHOP_PRICE

\* The step is a return of the named energy call.
Returns(op) == ledger'.calls # ledger.calls /\ ledger'.last.op = op

ClaimsSpaced(times) ==
    \A i, j \in DOMAIN times : i < j => times[j] - times[i] >= WINDOW_SEC

\* A successful daily claim lies less than 24 hours back.
ClaimedRecently ==
    /\ Len(ledger.claim_times) > 0
    /\ ledger.now - ledger.claim_times[Len(ledger.claim_times)] < WINDOW_SEC

\* C18.  At most one daily claim succeeds in any rolling 24-hour window, and
\* a claim made at MAX or less than 24 hours after the last successful one
\* is refused, leaving the energy value and raid_energy_daily_ts as they were.
C18_OneClaimPerDay ==
    [][/\ ClaimsSpaced(ledger'.claim_times)
       /\ (Returns("claim")
              /\ (GetEnergy(ledger.prof, ledger.now) >= ENERGY_MAX \/ ClaimedRecently))
          => /\ ~ledger'.last.ok
             /\ GetEnergy(ledger'.prof, ledger.now) = GetEnergy(ledger.prof, ledger.now)
             /\ ledger'.prof.raid_energy_daily_ts = ledger.prof.raid_energy_daily_ts]_vars

\* A claim was refused inside the 24 hours of an earlier one although the
\* player had spent energy and stood below MAX.
C18_Witness ==
    /\ ledger.at = "on"
    /\ ledger.last = [op |-> "claim", ok |-> FALSE, arg |-> 0]
    /\ Len(ledger.claim_times) = 1
    /\ ledger.now - ledger.claim_times[1] < WINDOW_SEC
    /\ ledger.prof.raid_energy < ENERGY_MAX

\* No 24 hours starting at a purchase hold more purchases than the cap.
BuysCapped(times) ==
    \A i \in DOMAIN times :
        Cardinality({j \in DOMAIN times :
                        times[j] >= times[i] /\ times[j] - times[i] < WINDOW_SEC})
            <= ENERGY_BUY_LIMIT_PER_DAY

C20_Counterexample ==
    calc.at = "done" =>
        /\ calc.dmg >= MIN_HIT_ABS
        /\ calc.dmg * 1000 <= MAX_HIT_PERMILLE * calc.b.max_hp
        /\ (calc.forced = 60 /\ calc.b.max_hp = 1000) => calc.dmg = 35


\* The last operation of the fight was an attack that met a standing shield.
HitShield == fight.at = "on" /\ fight.last.op = "attack" /\ fight.last.shield.type # "none"

\* What that attack took off the shield: its credit beyond the hp it removed.
ShieldAbsorbed == fight.last.credit - fight.last.dmg_to_boss

\* C21: a stored shield never has hp below 0; an attack that takes a shield's
\* hp down to 0 leaves the boss without a shield and reports the break, and a
\* break is reported only by an attack that met a standing shield, so a
\* shield left standing by an attack has hp above 0.
C21_ShieldNeverEmpty ==
    fight.at = "on" =>
        /\ fight.b.shield.hp >= 0
        /\ (HitShield /\ ShieldAbsorbed >= fight.last.shield.hp)
              => (fight.b.shield = NoShield /\ fight.last.broken)
        /\ (fight.last.op = "attack" /\ fight.last.broken)
              => (HitShield /\ fight.b.shield = NoShield)
        /\ (fight.last.op = "attack" /\ fight.b.shield.type # "none")
              => (fight.b.shield.hp > 0 /\ ~ fight.last.broken)

C21_Witness ==
    /\ HitShield
    /\ fight.last.shield.hp > 0
    /\ fight.last.broken
    /\ fight.b.shield = NoShield
    /\ fight.b.hp > 0

\* C22: every change of the stored guard_break_until is made by an attack
\* that broke a shield, and sets it to 30 seconds after that attack.
C22_Counterexample ==
    [][(fight.at = "on" /\ fight'.gb_until # fight.gb_until)
          => /\ fight'.last.op = "attack"
             /\ fight'.last.broken
             /\ fight'.gb_until = fight.now + GUARD_BREAK_SEC]_vars


\* C23: after the payout every reward is the participant's share of the pool
\* clamped into [REWARD_MIN, REWARD_MAX], and the rewards together do not
\* exceed the pool.
C23_Counterexample ==
    purse.at = "paid" =>
        /\ \A p \in DOMAIN purse.tally :
              purse.rewards[p] =
                  Max(REWARD_MIN, Min(REWARD_MAX, RewardShare(purse.tally, p)))
        /\ TallyTotal(purse.rewards) <= purse.pool


RejectedEarly(t) ==
    pc[t] = "idle" /\ pc'[t] = "done"
        /\ out'[t] \in {"cooldown", "dead", "noenergy"}

\* C25: a press that is turned away before the lock (cooldown, dead boss,
\* no energy) leaves every player's energy and the persisted boss document
\* as they were, and every press that ends before the lock ends that way.
C25_RejectionKeepsState ==
    [][\A t \in Tasks :
          /\ RejectedEarly(t) => (energy' = energy /\ disk' = disk)
          /\ (pc[t] = "idle" /\ pc'[t] = "done") => RejectedEarly(t)]_vars

C25_Witness ==
    /\ \E t \in Tasks : out[t] = "dead" /\ energy[user[t]] > 0
    /\ \E t \in Tasks : out[t] = "hit" \/ out[t] = "killed"


\* The outcomes an attack reports: the hit (of a kill too), or the refusal.
ReportedOutcomes == {"hit", "killed", "cooldown", "dead", "noenergy", "toolate"}

\* Invocation t is not under way: never started, or ended.
AtRest(t) == pc[t] \in {"idle", "done"}

\* C26: when save_boss and the replies return, every run reaches a point
\* after which no attack is under way any more (so every attack that waited
\* for boss_state_lock got it and every held lock was released); an attack
\* leaves the wait for the lock only by holding it, an attack that is not
\* under way does not hold the lock, and an ended attack has a reported
\* outcome.
C26_AttacksTerminate ==
    /\ <>[](\A t \in Tasks : AtRest(t))
    /\ [][\A t \in Tasks :
            (pc[t] = "wantlock" /\ pc'[t] # "wantlock") => lock' = t]_vars
    /\ [](\A t \in Tasks : AtRest(t) => lock # t)
    /\ [](\A t \in Tasks : pc[t] = "done" => out[t] \in ReportedOutcomes)

C26_Witness ==
    \E t, u \in Tasks :
        /\ pc[t] = "wantlock"
        /\ lock = u
        /\ u # t
        /\ \E v \in Tasks : pc[v] = "done" /\ out[v] \in {"hit", "killed"}


\* The step is a load_boss call returning (no save_boss is under way).
LoadReturns ==
    /\ store.at = "idle"
    /\ store'.at = "idle"
    /\ store'.saves = store.saves
    /\ store' # store

\* The snapshot load_boss returns when there is no file: the default
\* template with an empty catalog.
DefaultSnapshot == LoadDoc(AbsentFile)

SavesLoaded ==
    /\ store.at \in {"merged", "tmp", "replaced"}
    /\ store.snap = LoadDoc(store.prev)
    /\ store.out = SaveMerge(ReadJsonData(store.prev), store.snap)

FreshlySpawned == disk.hp > 0 /\ disk = SpawnedBoss(disk, disk.hp)

\* The step is the reset write of invocation t's _handle_kill.
WritesReset(t) == pc[t] = "killreset" /\ pc'[t] = "done"

\* C29: the reset write of _handle_kill leaves a boss that was spawned since
\* the kill as it is.
C29_Counterexample ==
    [][\A t \in Tasks : (WritesReset(t) /\ FreshlySpawned) => disk' = disk]_vars


\* The step is invocation t's save_boss returning inside the attack's lock.
Commits(t) == pc[t] = "saving" /\ pc'[t] = "reply"

\* C30: the commit of an attack raises the attacker's tally entry by the hp
\* it takes off the boss and leaves every other entry as it was.
C30_Counterexample ==
    [][\A t \in Tasks :
          Commits(t) =>
              \A p \in Players :
                  TallyGet(disk'.tally, p) =
                      TallyGet(disk.tally, p)
                          + (IF p = user[t] THEN disk.hp - disk'.hp ELSE 0)]_vars


\* The step puts phase 2 where phase 1 stood.
EntersPhase2 == disk.phase = 1 /\ disk'.phase = 2

\* The step puts phase 1 where phase 2 stood.
LeavesPhase2 == disk.phase = 2 /\ disk'.phase = 1

\* C31: the commit of an attack takes the phase from 1 to 2 exactly when a
\* phase-2 image is configured and the hp it leaves is at most half of
\* max_hp; the phase goes back from 2 to 1 only by an admin spawning a boss.
C31_Counterexample ==
    [][/\ \A t \in Tasks :
            Commits(t) =>
                (EntersPhase2 <=>
                    (disk.phase = 1 /\ disk.has_p2
                        /\ 2 * disk'.hp <= disk'.max_hp))
       /\ LeavesPhase2 =>
            \E hp \in PresetHps, p2 \in BOOLEAN :
                disk' = PresetBoss(disk, hp, p2)]_vars


\* The attacker of the hit has no faction passive acting on the shield:
\* neither Rend (thorned) nor Shatter (gilded, on a crit).
NoPassive == calc.faction # "thorned" /\ ~(calc.faction = "gilded" /\ calc.crit)

\* The faction whose hits a shield kind does not dampen.
CounterOf(kind) == IF kind = "bramble" THEN "verdant" ELSE "mistveil"

\* Raw damage after the shield kind's flat reduction.
MitigatedRef(kind, faction, raw) ==
    IF faction = CounterOf(kind) THEN raw
    ELSE IF kind = "bramble" THEN (raw * BRAMBLE_KEEP_PCT) \div 100
    ELSE (raw * VEIL_KEEP_PCT) \div 100

\* The reference outcome of one hit on an active shield.
ShieldRef(s, faction, raw) ==
    LET mitigated == MitigatedRef(s.type, faction, raw)
        absorbed == Min(mitigated, s.hp)
    IN  [hp |-> s.hp - absorbed,
         dmg_to_boss |-> mitigated - absorbed,
         broken |-> s.hp - absorbed = 0]

\* C32: without a faction passive, _apply_shield gives the reference outcome:
\* the flat reduction unless the attacker counters the shield, the shield
\* absorbing up to its hp, the rest going to the boss, and the shield broken
\* and cleared exactly when its hp reaches 0.  A Bramble shield of 80 hit
\* for 100 is left with 30 and passes 0; one of 10 passes 40 and breaks.
C32_ApplyShieldReference ==
    (calc.at = "hit" /\ NoPassive) =>
        LET s == calc.b.shield
            ref == ShieldRef(s, calc.faction, calc.raw)
            plain == s.type = "bramble" /\ calc.faction = "" /\ calc.raw = 100
        IN  /\ calc.out.dmg_to_boss = ref.dmg_to_boss
            /\ calc.out.absorbed = s.hp - ref.hp
            /\ calc.out.broken = ref.broken
            /\ calc.out.b.shield =
                   (IF ref.broken THEN NoShield ELSE [s EXCEPT !.hp = ref.hp])
            /\ calc.out.b = [calc.b EXCEPT !.shield = calc.out.b.shield]
            /\ (plain /\ s.hp = 80) =>
                   /\ calc.out.b.shield.hp = 30
                   /\ calc.out.dmg_to_boss = 0
                   /\ ~calc.out.broken
            /\ (plain /\ s.hp = 10) =>
                   /\ calc.out.b.shield = NoShield
                   /\ calc.out.dmg_to_boss = 40
                   /\ calc.out.broken

\* A Bramble shield of 10 has been hit for 100 by an attacker without a
\* faction and is broken, 40 going to the boss; elsewhere a shield stands.
C32_Witness ==
    /\ calc.at = "hit"
    /\ calc.b.shield = [type |-> "bramble", hp |-> 10, max_hp |-> 80]
    /\ calc.faction = ""
    /\ calc.raw = 100
    /\ calc.out.broken
    /\ calc.out.dmg_to_boss = 40


\* The same hit on the same shield made by an attacker without a faction:
\* no faction counters nothing and chews nothing, so the damage after
\* mitigation is the Thorned attacker's.
SameHitNoRend == ApplyShield(calc.b, calc.raw, "", calc.crit)

\* C33: Rend only wears the shield faster: a Thorned attacker's hit sends
\* the boss what the same hit without the passive sends, takes at least as
\* much hp off the shield, and never more than the shield had.
C33_RendOnlyChewsShield ==
    (calc.at = "hit" /\ calc.faction = "thorned") =>
        /\ calc.out.dmg_to_boss = SameHitNoRend.dmg_to_boss
        /\ calc.out.absorbed >= SameHitNoRend.absorbed
        /\ calc.out.absorbed <= calc.b.shield.hp
        /\ calc.out.b.shield.hp >= 0
        /\ calc.out.b.hp = SameHitNoRend.b.hp

\* A Thorned hit has taken more off a surviving shield than the same hit
\* without Rend does.
C33_Witness ==
    /\ calc.at = "hit"
    /\ calc.faction = "thorned"
    /\ calc.out.absorbed > SameHitNoRend.absorbed
    /\ ~calc.out.broken


\* The step is a tick of the idle healer.
HealerTicks == fight.at = "heal" /\ fight'.op = "heal" /\ fight'.ticks # fight.ticks

\* No entry of the log is stamped within the last IDLE_HEAL_MINUTES.
LogIdle ==
    \A i \in DOMAIN fight.stamps :
        fight.now - fight.stamps[i] >= IDLE_HEAL_MINUTES * 60

\* C34: a tick of the idle healer changes hp only on a live boss whose log
\* holds no action of the last IDLE_HEAL_MINUTES; it then sets hp to
\* min(max_hp, hp + max(1, floor(max_hp * pct))), changes nothing else, and
\* leaves a dead boss dead.
C34_IdleHeal ==
    [][HealerTicks =>
          LET b == fight.b
              heal == Max(1, (b.max_hp * IDLE_HEAL_PCT) \div 100)
          IN  /\ fight'.b.hp # b.hp => (b.hp > 0 /\ LogIdle)
              /\ (b.hp > 0 /\ LogIdle) =>
                     fight'.b.hp = Min(b.max_hp, b.hp + heal)
              /\ fight'.b = [b EXCEPT !.hp = fight'.b.hp]
              /\ b.hp <= 0 => fight'.b.hp <= 0]_vars

\* The second tick of a run has healed, from 50 to 54, a boss whose last hit
\* (with its phase entry) is exactly IDLE_HEAL_MINUTES old.
C34_Witness ==
    /\ fight.at = "heal"
    /\ fight.op = "heal"
    /\ fight.b.hp = 54
    /\ Len(fight.stamps) = 2
    /\ fight.now - fight.stamps[2] = IDLE_HEAL_MINUTES * 60
    /\ fight.ticks = 2


\* The persisted shield is past its expiry, the instant of expiry included.
ShieldOverdue == fight.expires # 0 /\ fight.now >= fight.expires

\* The step is a shield_cleaner tick taking the persisted shield away.
SweeperClears ==
    /\ fight.at = "on"
    /\ fight.b.shield.type # "none"
    /\ fight'.b.shield.type = "none"
    /\ fight'.last.op = "sweep"

AttackReadsShield ==
    /\ fight.at = "on"
    /\ fight.b.shield.type # "none"
    /\ fight'.last.op = "attack"
    /\ fight'.hits = fight.hits + 1

\* C36: the read of the shield returns none whenever the stored shield has
\* no hp or the time has reached its expiry (now >= expires_at), and
\* otherwise returns the shield with the hp it has.
C36_Counterexample ==
    [][AttackReadsShield =>
          IF ShieldOverdue \/ fight.b.shield.hp <= 0
          THEN fight'.last.shield = NoShield
          ELSE /\ fight'.last.shield.type = fight.b.shield.type
               /\ fight'.last.shield.hp = fight.b.shield.hp]_vars


\* The step is a tick of one of the two background loops.
BackgroundTick == wheel.at = "timed" /\ wheel'.op \in {"loop", "scheduler"}
                    /\ wheel' # wheel

\* The step is the tick of the one-minute loop that completes an interval.
NthTick == wheel'.op = "loop" /\ wheel.enabled /\ wheel.tick + 1 >= wheel.minutes

\* C37: with rotation enabled at an interval of N minutes, a background
\* tick changes the weakness of a live boss exactly when it is the Nth
\* one-minute tick, so two background rotations are at least N minutes apart.
C37_Counterexample ==
    [][(BackgroundTick /\ wheel.enabled) =>
          /\ (wheel'.weakness # wheel.weakness) <=> NthTick
          /\ (wheel'.weakness # wheel.weakness /\ wheel.last_rot >= 0) =>
                 wheel'.minute - wheel.last_rot >= wheel.minutes]_vars

\* C38: while auto-rotation is disabled, the weakness is changed by the
\* admin commands set and now only, never by a background tick.
C38_Counterexample ==
    [][(wheel.at = "timed" /\ ~wheel.enabled /\ wheel'.weakness # wheel.weakness)
          => wheel'.op \in {"set", "now"}]_vars


\* Whole minutes between the anchor and the call.
StaleMinutes == (ledger.now - ledger.before.raid_energy_ts) \div 60

\* C39: for a player below ENERGY_MAX whose anchor is e minutes stale,
\* materialize adds floor(e / ENERGY_REGEN_MINUTES) energy, capped at
\* ENERGY_MAX, and moves the anchor forward by exactly that many regen
\* periods; 65 minutes give min(5, current + 3) and 60 minutes of anchor.
C39_MaterializeWholeTicks ==
    (ledger.at = "fresh" /\ ledger.before.raid_energy < ENERGY_MAX) =>
        LET ticks == StaleMinutes \div ENERGY_REGEN_MINUTES
        IN  /\ ledger.prof.raid_energy =
                   Min(ENERGY_MAX, ledger.before.raid_energy + ticks)
            /\ ledger.prof.raid_energy_ts =
                   ledger.before.raid_energy_ts
                       + ticks * ENERGY_REGEN_MINUTES * 60
            /\ ledger.prof = [ledger.before EXCEPT
                                !.raid_energy = ledger.prof.raid_energy,
                                !.raid_energy_ts = ledger.prof.raid_energy_ts]
            /\ StaleMinutes = 65 =>
                   /\ ledger.prof.raid_energy =
                          Min(5, ledger.before.raid_energy + 3)
                   /\ ledger.prof.raid_energy_ts =
                          ledger.before.raid_energy_ts + 60 * 60

\* A player at 1 has been materialized 65 minutes and 30 seconds after the
\* anchor: 4 energy, the anchor 60 minutes on.
C39_Witness ==
    /\ ledger.at = "fresh"
    /\ ledger.before.raid_energy = 1
    /\ ledger.now - ledger.before.raid_energy_ts = 3930
    /\ ledger.prof.raid_energy = 4
    /\ ledger.prof.raid_energy_ts = ledger.before.raid_energy_ts + 3600


\* The step is an attack committing on the boss with the stamped log.
LoggedAttack == fight.at = "heal" /\ fight'.op = "attack" /\ fight'.hits # fight.hits

\* s is in chronological order.
Chronological(s) == \A i \in 1..(Len(s) - 1) : s[i] <= s[i + 1]

\* s is what is left of t after dropping entries from its front.
IsSuffix(s, t) ==
    /\ Len(s) <= Len(t)
    /\ \A i \in 1..Len(s) : s[i] = t[Len(t) - Len(s) + i]

\* C40: after a committed attack the log holds at most 25 entries in
\* chronological order, the oldest ones dropped first, and the attack's own
\* entry is the last one, a phase entry of the same attack coming before it.
C40_LogCappedOwnEntryLast ==
    [][LoggedAttack =>
          LET log == fight'.b.last_actions
              own == log[Len(log)]
              switched == fight.b.phase = 1 /\ fight'.b.phase = 2
              grown == fight.b.last_actions
                          \o (IF switched THEN <<PhaseShiftEntry>> ELSE << >>)
                          \o <<own>>
          IN  /\ Len(log) >= 1 /\ Len(log) <= 25
              /\ own = [user_id |-> fight'.who, faction |-> FactionOf(fight'.who),
                        dmg |-> fight.b.hp - fight'.b.hp]
              /\ switched => log[Len(log) - 1] = PhaseShiftEntry
              /\ IsSuffix(log, grown)
              /\ Len(log) = Min(25, Len(grown))
              /\ Len(fight'.stamps) = Len(log)
              /\ Chronological(fight'.stamps)
              /\ fight'.stamps[Len(log)] = fight.now]_vars

\* An attack on a boss whose log was full has switched the phase: the log
\* is full again and ends with the phase entry and the attack's own entry.
C40_Witness ==
    /\ fight.at = "heal"
    /\ fight.op = "attack"
    /\ fight.hits = 1
    /\ Len(fight.b.last_actions) = 25
    /\ fight.b.last_actions[24] = PhaseShiftEntry
    /\ fight.b.last_actions[25].user_id = fight.who
    /\ fight.stamps[23] = FightStart - 1

=============================================================================
